---- MODULE Spec2Model ----
(***************************************************************************)
(* Verification model of the mtr-pathfinder engine.                        *)
(*                                                                         *)
(*   src/mtr_pathfinder_lib/mtr_pathfinder_v4.py  REALTIME: gen_timetable, *)
(*                                  load_tt, CSA, process_path, main       *)
(*   src/mtr_pathfinder.py          THEORY / WAITING: create_graph,        *)
(*                                  find_shortest_route, process_path,     *)
(*                                  main                                   *)
(*                                                                         *)
(* The module holds several specifications over one set of variables:      *)
(*   SpecCSA    the connection scan on arbitrary sorted connection lists   *)
(*   SpecTimeout  the connection scan while the clock runs                  *)
(*   SpecRT     a REALTIME query, main() of mtr_pathfinder_v4.py            *)
(*   SpecLegs   the same query on networks on which process_path joins     *)
(*              trips                                                       *)
(*   SpecGraph  a THEORY / WAITING query, main() of mtr_pathfinder.py       *)
(*   SpecPath   find_shortest_route on arbitrary small multigraphs          *)
(*   SpecSession  main() of mtr_pathfinder.py called again and again, with  *)
(*              the cache of built graphs on disk                           *)
(*   SpecCable  the same calls on a network with a cable car               *)
(*   SpecInterval  gen_route_interval of mtr_pathfinder.py, MTR_VER = 3     *)
(*   SpecResolve  station_name_to_id of mtr_pathfinder.py on any small      *)
(*              station dict                                                *)
(* Each specification leaves the variables of the other parts idle.        *)
(***************************************************************************)
EXTENDS Integers, Sequences, FiniteSets, TLC

VARIABLES
    \* ---- CSA object (mtr_pathfinder_v4.py, class CSA) ----
    connections,        \* self.connections: the list the scan reads
    departure_station,  \* compute()'s arguments
    arrival_station,
    departure_time,
    earliest_arrival,   \* self.earliest_arrival
    in_connection,      \* self.in_connection
    earliest,           \* main_loop's local `earliest`
    idx,                \* main_loop's position: index of the next connection
    route,              \* the list compute() returns
    csa_pc,             \* "idle" | "start" | "scan" | "find" | "done"
    max_stations,       \* self.max_stations
    timeout_min,        \* self.timeout_min
    start_time,         \* self.start_time, in seconds
    clock,              \* what time() returns, in seconds
    \* ---- REALTIME query (mtr_pathfinder_v4.py, main) ----
    rt_data,            \* data and dep_data: routes, departures, walks
    rt_args,            \* main()'s arguments
    tt_dict,            \* gen_timetable's result: route id -> template
    timetable,          \* load_tt's first result: the sorted connections
    trips,              \* load_tt's second result: trip_no -> station -> dep
    rt_pc,              \* position inside main()
    rt_out,             \* what main() returns or raises
    route_new,          \* process_path's list after the trips are joined
    rt_path,            \* process_path's list `path`
    \* ---- THEORY / WAITING query (mtr_pathfinder.py, main) ----
    g_data,             \* data[0] and the interval file
    g_args,             \* main()'s arguments
    tmp_names,          \* the module global tmp_names
    intervals,          \* the module global intervals
    original,           \* the module global original
    g_avoid_ids,        \* create_graph's locals avoid_ids, ...
    edges_dict,
    edges_attr_dict,
    waiting_walking_dict,
    G,                  \* the MultiDiGraph: [nodes, adj]
    g_pc,               \* position inside main() / create_graph()
    g_out,              \* find_shortest_route's result
    g_legs,             \* process_path's every_route_time
    g_times,            \* process_path's waiting_time and riding time
    g_filename,         \* create_graph's local filename
    cache_files,        \* the files of mtr_pathfinder_temp: name -> content
    default_ignored,    \* the list object that is main()'s default
                        \* IGNORED_LINES
    g_log,              \* history: how every main() call of this process
                        \* came by its graph
    g_seen,             \* history: what other readers of the cache loaded
    \* ---- gen_route_interval (mtr_pathfinder.py), MTR_VER 3 ----
    iv_threads,         \* the stations whose fetch thread still runs
    iv_inflight,        \* those of them that hold the semaphore
    ROUTE_INTERVAL_DATA, \* the module global queue of the responses
    interval_data_list, \* the responses taken off the queue
    freq_dict,          \* the interval table made of them
    interval_file,      \* the tables written to INTERVAL_PATH, in order
    iv_pc,              \* position inside gen_route_interval
    \* ---- station_name_to_id (mtr_pathfinder.py) on any station dict ----
    rs_names,           \* data[0]['stations']: the name of each station id
    rs_table,           \* STATION_TABLE
    rs_cache,           \* the module global tmp_names
    rs_id,              \* what the last name given resolved to
    rs_back,            \* what that station's own name resolved to
    rs_calls,           \* names given so far
    rs_pc               \* "idle" | "resolved" | "back"

csaVars == <<connections, departure_station, arrival_station, departure_time,
             earliest_arrival, in_connection, earliest, idx, route, csa_pc,
             max_stations, timeout_min, start_time, clock>>

rtVars == <<rt_data, rt_args, tt_dict, timetable, trips, rt_pc, rt_out,
            route_new, rt_path>>

graphVars == <<g_data, g_args, tmp_names, intervals, original,
               g_avoid_ids, edges_dict, edges_attr_dict, waiting_walking_dict, G, g_pc,
               g_out, g_legs,
               g_times, g_filename, cache_files, default_ignored,
               g_log, g_seen>>

\* the cache directory, main()'s default list and the history variables
sessionVars == <<g_filename, cache_files, default_ignored, g_log, g_seen>>

intervalVars == <<iv_threads, iv_inflight, ROUTE_INTERVAL_DATA, interval_data_list,
                  freq_dict, interval_file, iv_pc>>

resolveVars == <<rs_names, rs_table, rs_cache, rs_id, rs_back, rs_calls,
                 rs_pc>>

vars == <<csaVars, rtVars, graphVars, intervalVars, resolveVars>>

----------------------------------------------------------------------------
(* Generic helpers *)

Min2(a, b) == IF a <= b THEN a ELSE b

SetMin(S) == CHOOSE x \in S : \A y \in S : x <= y

Abs(x) == IF x < 0 THEN -x ELSE x

Range(s) == {s[i] : i \in 1..Len(s)}

Reverse(s) == [i \in 1..Len(s) |-> s[Len(s) + 1 - i]]

----------------------------------------------------------------------------
(* Bounds of the CSA inputs *)

\* stations are packed as 0 .. NumStations-1 (len(data['stations']))
NumStations == 3
\* times of the CSA inputs range over 0 .. MaxTime
MaxTime == 2
\* longest connection list
MaxConn == 3

\* The "infinity"/"none" sentinel of both CSA arrays.  The source uses
\* 2**64 - 1; any value above every time and index of the model acts alike.
MAX_INT == 2147483647

StationNums == 0..(NumStations - 1)

\* range(self.max_stations)
StationRange(n) == 0..(n - 1)

\* A connection is the source's tuple (c[0], c[1], c[2], c[3]):
\* dep station, arr station, dep time, arr time.
Conn(ds, as, dt, at) ==
    [dep |-> ds, arr |-> as, dep_time |-> dt, arr_time |-> at]

\* Elementary connections the timetable builder can emit: distinct stations,
\* a duration that is zero or more.
ConnUniverse ==
    {Conn(ds, as, dt, at) : ds \in StationNums, as \in StationNums,
                            dt \in 0..MaxTime, at \in 0..MaxTime}

ValidConn(c) == c.dep # c.arr /\ c.arr_time >= c.dep_time

IsSorted(cs) == \A i \in 1..Len(cs) : \A j \in 1..Len(cs) :
                    i < j => cs[i].dep_time <= cs[j].dep_time

----------------------------------------------------------------------------
(* class CSA *)

ScanOneStopAtFirstMiss(cs, arrival, st, i) ==
    LET c == cs[i] IN
    IF c.dep_time >= st.ea[c.dep] /\ c.arr_time < st.ea[c.arr]
    THEN [st EXCEPT !.ea[c.arr] = c.arr_time,
                    !.ic[c.arr] = i,
                    !.earliest = IF c.arr = arrival
                                 THEN Min2(st.earliest, c.arr_time)
                                 ELSE st.earliest]
    ELSE IF st.earliest < MAX_INT
         THEN [st EXCEPT !.stop = TRUE]
         ELSE st

ScanOneNotStrict(cs, arrival, st, i) ==
    LET c == cs[i] IN
    IF c.dep_time >= st.ea[c.dep] /\ c.arr_time <= st.ea[c.arr]
    THEN [st EXCEPT !.ea[c.arr] = c.arr_time,
                    !.ic[c.arr] = i,
                    !.earliest = IF c.arr = arrival
                                 THEN Min2(st.earliest, c.arr_time)
                                 ELSE st.earliest]
    ELSE IF c.dep_time >= st.earliest
         THEN [st EXCEPT !.stop = TRUE]
         ELSE st

\* One iteration of main_loop's for-loop on connection number i (1-based):
\* st is [ea, ic, earliest, stop].
ScanOne(cs, arrival, st, i) ==
    LET c == cs[i] IN
    IF c.dep_time >= st.ea[c.dep] /\ c.arr_time < st.ea[c.arr]
    THEN [st EXCEPT !.ea[c.arr] = c.arr_time,
                    !.ic[c.arr] = i,
                    !.earliest = IF c.arr = arrival
                                 THEN Min2(st.earliest, c.arr_time)
                                 ELSE st.earliest]
    ELSE IF c.dep_time >= st.earliest
         THEN [st EXCEPT !.stop = TRUE]
         ELSE st

\* main_loop looks at the clock after connection number i (0-based) when i
\* is a multiple of CheckEvery; the source's 20000 is scaled down to the
\* length of the model's lists.
CheckEvery == 2

TimedOutNotStrict(i, now, start, minutes) ==
    i % CheckEvery = 0 /\ now >= start + 60 * minutes

\* if i % 20000 == 0: if time() > self.start_time + 60 * self.timeout_min
TimedOut(i, now, start, minutes) ==
    i % CheckEvery = 0 /\ now > start + 60 * minutes

\* find_path: follow in_connection back from the arrival station.  `fuel`
\* bounds the walk; running out of it stands for a loop that never ends.
RECURSIVE FindBack(_, _, _, _)
FindBack(cs, ic, last, fuel) ==
    IF last = MAX_INT THEN <<>>
    ELSE IF fuel = 0 THEN <<"loop">>
    ELSE <<cs[last]>> \o FindBack(cs, ic, ic[cs[last].dep], fuel - 1)

find_path(cs, ic, arrival) ==
    IF ic[arrival] # MAX_INT
    THEN Reverse(FindBack(cs, ic, ic[arrival], Len(cs) + 1))
    ELSE <<>>

----------------------------------------------------------------------------
(* The parts of the state a specification does not use *)

RTIdle ==
    /\ rt_data = <<>>
    /\ rt_args = <<>>
    /\ tt_dict = <<>>
    /\ timetable = <<>>
    /\ trips = <<>>
    /\ rt_pc = "idle"
    /\ rt_out = "idle"
    /\ route_new = <<>>
    /\ rt_path = <<>>

GraphIdle ==
    /\ g_data = <<>>
    /\ g_args = <<>>
    /\ tmp_names = <<>>
    /\ intervals = <<>>
    /\ original = <<>>
    /\ g_avoid_ids = {}
    /\ edges_dict = <<>>
    /\ edges_attr_dict = <<>>
    /\ waiting_walking_dict = <<>>
    /\ G = <<>>
    /\ g_pc = "idle"
    /\ g_out = "idle"
    /\ g_legs = <<>>
    /\ g_times = <<>>
    /\ g_filename = <<>>
    /\ cache_files = <<>>
    /\ default_ignored = <<>>
    /\ g_log = <<>>
    /\ g_seen = {}

ResolveIdle ==
    /\ rs_names = <<>>
    /\ rs_table = {}
    /\ rs_cache = <<>>
    /\ rs_id = 0
    /\ rs_back = 0
    /\ rs_calls = 0
    /\ rs_pc = "idle"

IntervalIdle ==
    /\ iv_threads = {}
    /\ iv_inflight = {}
    /\ ROUTE_INTERVAL_DATA = <<>>
    /\ interval_data_list = <<>>
    /\ freq_dict = <<>>
    /\ interval_file = <<>>
    /\ iv_pc = "idle"

CSAIdle ==
    /\ connections = <<>>
    /\ departure_station = 0
    /\ arrival_station = 0
    /\ departure_time = 0
    /\ earliest_arrival = <<>>
    /\ in_connection = <<>>
    /\ earliest = MAX_INT
    /\ idx = 0
    /\ route = <<>>
    /\ csa_pc = "idle"
    /\ max_stations = 0
    /\ timeout_min = 2
    /\ start_time = 0
    /\ clock = 0

----------------------------------------------------------------------------
(* Specification SpecCSA: CSA.compute on any sorted connection list *)

RECURSIVE SortedLists(_)
SortedLists(n) ==
    IF n = 0 THEN {<<>>}
    ELSE LET shorter == SortedLists(n - 1) IN
         shorter \cup
         {Append(cs, c) : cs \in {x \in shorter : Len(x) = n - 1},
                          c \in {x \in ConnUniverse : ValidConn(x)}}

InitCSA ==
    /\ connections \in {cs \in SortedLists(MaxConn) : IsSorted(cs)}
    /\ departure_station \in StationNums
    /\ arrival_station \in StationNums
    /\ departure_time \in 0..MaxTime
    /\ earliest_arrival = <<>>
    /\ in_connection = <<>>
    /\ earliest = MAX_INT
    /\ idx = 0
    /\ route = <<>>
    /\ csa_pc = "start"
    /\ max_stations = NumStations
    /\ timeout_min = 2
    /\ start_time = 0
    /\ clock = 0
    /\ RTIdle
    /\ GraphIdle
    /\ IntervalIdle
    /\ ResolveIdle

\* compute(), up to the call of main_loop
Compute ==
    /\ csa_pc = "start"
    /\ in_connection' = [s \in StationRange(max_stations) |-> MAX_INT]
    /\ earliest_arrival' = [s \in StationRange(max_stations) |->
                              IF s = departure_station THEN departure_time
                              ELSE MAX_INT]
    /\ earliest' = MAX_INT
    /\ idx' = 1
    /\ csa_pc' = IF departure_station <= max_stations
                    /\ arrival_station <= max_stations
                 THEN "scan" ELSE "find"
    /\ start_time' = IF departure_station <= max_stations
                        /\ arrival_station <= max_stations
                     THEN clock ELSE start_time
    /\ UNCHANGED <<connections, departure_station, arrival_station,
                   departure_time, route, max_stations, timeout_min, clock>>

\* main_loop: one connection per step; `return` comes before the look at
\* the clock, and TimeoutError leaves compute() without a result
ScanStep ==
    /\ csa_pc = "scan"
    /\ idx <= Len(connections)
    /\ LET st == ScanOne(connections, arrival_station,
                         [ea |-> earliest_arrival, ic |-> in_connection,
                          earliest |-> earliest, stop |-> FALSE], idx)
       IN /\ earliest_arrival' = st.ea
          /\ in_connection' = st.ic
          /\ earliest' = st.earliest
          /\ idx' = idx + 1
          /\ csa_pc' = IF st.stop THEN "find"
                       ELSE IF TimedOut(idx - 1, clock, start_time,
                                        timeout_min)
                            THEN "timeout" ELSE "scan"
    /\ UNCHANGED <<connections, departure_station, arrival_station,
                   departure_time, route, max_stations, timeout_min,
                   start_time, clock>>

\* main_loop: the list is exhausted
ScanEnd ==
    /\ csa_pc = "scan"
    /\ idx > Len(connections)
    /\ csa_pc' = "find"
    /\ UNCHANGED <<connections, departure_station, arrival_station,
                   departure_time, earliest_arrival, in_connection, earliest,
                   idx, route, max_stations, timeout_min, start_time, clock>>

\* compute(): return self.find_path(arrival_station)
FindPath ==
    /\ csa_pc = "find"
    /\ route' = find_path(connections, in_connection, arrival_station)
    /\ csa_pc' = "done"
    /\ UNCHANGED <<connections, departure_station, arrival_station,
                   departure_time, earliest_arrival, in_connection, earliest,
                   idx, max_stations, timeout_min, start_time, clock>>

\* The scan as a whole: compute() from its call to its return
CSAStep == Compute \/ ScanStep \/ ScanEnd \/ FindPath

NextCSA == CSAStep /\ UNCHANGED <<rtVars, graphVars, intervalVars, resolveVars>>

SpecCSA == InitCSA /\ [][NextCSA]_vars

----------------------------------------------------------------------------
(* Specification SpecTimeout: CSA.compute while the clock runs *)

\* the clock runs for no more than this many minutes
MaxMinutes == 3

\* From station 0: to 1 and on to 2, to 2 late, a connection out of 2 that
\* cannot be boarded, and a later one to 1 that ends the scan.
TimeoutConns ==
    {Conn(0, 1, 0, 1), Conn(1, 2, 1, 2), Conn(0, 2, 2, 2), Conn(2, 1, 0, 0),
     Conn(0, 1, 2, 2)}

TimeoutLists ==
    {cs \in UNION {[1..n -> TimeoutConns] : n \in 0..MaxConn} : IsSorted(cs)}

InitTimeout ==
    /\ connections \in TimeoutLists
    /\ departure_station = 0
    /\ arrival_station \in {1, 2}
    /\ departure_time = 0
    /\ earliest_arrival = <<>>
    /\ in_connection = <<>>
    /\ earliest = MAX_INT
    /\ idx = 0
    /\ route = <<>>
    /\ csa_pc = "start"
    /\ max_stations = NumStations
    /\ timeout_min \in 0..2
    /\ start_time = 0
    /\ clock = 0
    /\ RTIdle
    /\ GraphIdle
    /\ IntervalIdle
    /\ ResolveIdle

\* a minute passes, before compute() is called or during the scan
Tick ==
    /\ csa_pc \in {"start", "scan"}
    /\ clock < 60 * MaxMinutes
    /\ clock' = clock + 60
    /\ UNCHANGED <<connections, departure_station, arrival_station,
                   departure_time, earliest_arrival, in_connection, earliest,
                   idx, route, csa_pc, max_stations, timeout_min, start_time>>

TimeoutStep == CSAStep \/ Tick

NextTimeout == TimeoutStep /\ UNCHANGED <<rtVars, graphVars, intervalVars, resolveVars>>

SpecTimeout == InitTimeout /\ [][NextTimeout]_vars

----------------------------------------------------------------------------
(* Claims about the connection scan *)

\* Earliest arrivals by exhaustive relaxation: one round lets every
\* connection that can be boarded improve its arrival station, whatever its
\* place in the list.  After Len(cs) rounds ea[s] is the minimum final
\* arr_time over all feasible chains from the start station to s.
RelaxAll(cs, ea) ==
    [s \in DOMAIN ea |->
        LET cands == {cs[i].arr_time :
                        i \in {j \in 1..Len(cs) :
                                 /\ cs[j].arr = s
                                 /\ cs[j].dep_time >= ea[cs[j].dep]}}
        IN IF cands = {} THEN ea[s] ELSE Min2(ea[s], SetMin(cands))]

RECURSIVE RelaxRounds(_, _, _)
RelaxRounds(cs, ea, n) ==
    IF n = 0 THEN ea ELSE RelaxRounds(cs, RelaxAll(cs, ea), n - 1)

BestArrival ==
    RelaxRounds(connections,
                [s \in StationRange(max_stations) |->
                    IF s = departure_station THEN departure_time
                    ELSE MAX_INT],
                Len(connections))[arrival_station]

\* C1: for a connection list sorted by dep_time (ties and connections with
\* arr_time = dep_time allowed) and distinct start and end, the path that
\* CSA.compute returns arrives at the minimum final arr_time over all
\* feasible chains, and is empty exactly when no feasible chain exists.
C1_ScanFindsEarliestArrival ==
    (csa_pc = "done" /\ departure_station # arrival_station) =>
        IF BestArrival = MAX_INT
        THEN route = <<>>
        ELSE /\ route # <<>>
             /\ route[Len(route)].arr_time = BestArrival

\* main_loop without its `return`: every connection from number i on is
\* looked at
RECURSIVE ScanToEnd(_, _, _, _)
ScanToEnd(cs, arrival, st, i) ==
    IF i > Len(cs) THEN st
    ELSE ScanToEnd(cs, arrival,
                   [ScanOne(cs, arrival, st, i) EXCEPT !.stop = FALSE], i + 1)

WholeScan ==
    ScanToEnd(connections, arrival_station,
              [ea |-> [s \in StationRange(max_stations) |->
                          IF s = departure_station THEN departure_time
                          ELSE MAX_INT],
               ic |-> [s \in StationRange(max_stations) |-> MAX_INT],
               earliest |-> MAX_INT, stop |-> FALSE], 1)

\* C24: on a list sorted by dep_time with arr_time >= dep_time everywhere,
\* the scan that stops at the first connection which improves nothing and
\* departs at or after the best arrival known at the destination returns
\* the same earliest arrival there and the same path as the scan of the
\* whole list.
C24_EarlyStopSameAnswer ==
    csa_pc = "done" =>
        /\ earliest = WholeScan.earliest
        /\ earliest_arrival[arrival_station] = WholeScan.ea[arrival_station]
        /\ route = find_path(connections, WholeScan.ic, arrival_station)

\* the scan stopped before the end of the list, and the rest of the list
\* would still have moved a back-pointer
C24_Witness ==
    /\ csa_pc = "done"
    /\ idx <= Len(connections)
    /\ route # <<>>
    /\ WholeScan.ic # in_connection

\* the walk back from connection number `last` reaches a station with no
\* back-pointer within `fuel` steps
RECURSIVE BackEnds(_, _, _, _)
BackEnds(cs, ic, last, fuel) ==
    IF last = MAX_INT THEN TRUE
    ELSE IF fuel = 0 THEN FALSE
    ELSE BackEnds(cs, ic, ic[cs[last].dep], fuel - 1)

IsChain(r) ==
    \A k \in 1..(Len(r) - 1) :
        /\ r[k + 1].dep = r[k].arr
        /\ r[k + 1].dep_time >= r[k].arr_time

OverBudget == clock > start_time + 60 * timeout_min

AtCheck == (idx - 1) % CheckEvery = 0

----------------------------------------------------------------------------
(* Strings.  A string is a sequence of one-character strings, so that      *)
(* split(), lower() and SequenceMatcher work on it as they do in Python.   *)

\* str.lower() on the letters the model uses
LowerChar(c) ==
    CASE c = "A" -> "a"
      [] c = "D" -> "d"
      [] c = "X" -> "x"
      [] OTHER -> c

Lower(s) == [i \in 1..Len(s) |-> LowerChar(s[i])]

\* OpenCC('s2t') and OpenCC('t2jp'): the model's alphabet has one
\* simplified character "1", whose traditional form is "2", whose Japanese
\* form is "3"; every other character converts to itself.
S2T(s) == [i \in 1..Len(s) |-> IF s[i] = "1" THEN "2" ELSE s[i]]
T2JP(s) == [i \in 1..Len(s) |-> IF s[i] = "2" THEN "3" ELSE s[i]]

\* str.split(sep): the pieces between the separators, in order
RECURSIVE Split(_, _)
Split(s, sep) ==
    IF \E i \in 1..Len(s) : s[i] = sep
    THEN LET i == CHOOSE k \in 1..Len(s) :
                     s[k] = sep /\ \A m \in 1..(k - 1) : s[m] # sep
         IN <<SubSeq(s, 1, i - 1)>> \o Split(SubSeq(s, i + 1, Len(s)), sep)
    ELSE <<s>>

----------------------------------------------------------------------------
(* difflib.SequenceMatcher, as get_close_matches uses it: a = seq1 is the  *)
(* station's name, b = seq2 is the word looked for.  Offsets are 0-based   *)
(* and half-open as in difflib.  Ratios are pairs <<numerator, denom>>.    *)

\* length of the common run of a[i:ahi] and b[j:bhi]
RECURSIVE RunLen(_, _, _, _, _, _)
RunLen(a, b, i, j, ahi, bhi) ==
    IF i < ahi /\ j < bhi /\ a[i + 1] = b[j + 1]
    THEN 1 + RunLen(a, b, i + 1, j + 1, ahi, bhi)
    ELSE 0

\* find_longest_match: the longest block; of those the one starting
\* earliest in a; of those the one starting earliest in b
find_longest_match(a, b, alo, ahi, blo, bhi) ==
    LET blocks == {<<i, j, RunLen(a, b, i, j, ahi, bhi)>> :
                      i \in alo..(ahi - 1), j \in blo..(bhi - 1)}
        real == {m \in blocks : m[3] > 0}
    IN IF real = {} THEN <<alo, blo, 0>>
       ELSE CHOOSE m \in real : \A o \in real :
               \/ m[3] > o[3]
               \/ m[3] = o[3] /\ m[1] < o[1]
               \/ m[3] = o[3] /\ m[1] = o[1] /\ m[2] <= o[2]

\* get_matching_blocks: total size of the blocks found by recursing to the
\* left and to the right of the longest one
RECURSIVE MatchedChars(_, _, _, _, _, _)
MatchedChars(a, b, alo, ahi, blo, bhi) ==
    LET m == find_longest_match(a, b, alo, ahi, blo, bhi) IN
    IF m[3] = 0 THEN 0
    ELSE m[3] + MatchedChars(a, b, alo, m[1], blo, m[2])
              + MatchedChars(a, b, m[1] + m[3], ahi, m[2] + m[3], bhi)

\* _calculate_ratio(matches, length)
calculate_ratio(matches, length) ==
    IF length > 0 THEN <<2 * matches, length>> ELSE <<1, 1>>

ratio(a, b) ==
    calculate_ratio(MatchedChars(a, b, 0, Len(a), 0, Len(b)), Len(a) + Len(b))

Count(s, c) == Cardinality({i \in 1..Len(s) : s[i] = c})

\* quick_ratio: size of the multiset intersection of the characters
quick_ratio(a, b) ==
    LET chars == Range(a) \cap Range(b)
        RECURSIVE Sum(_)
        Sum(S) == IF S = {} THEN 0
                  ELSE LET c == CHOOSE x \in S : TRUE
                       IN Min2(Count(a, c), Count(b, c)) + Sum(S \ {c})
    IN calculate_ratio(Sum(chars), Len(a) + Len(b))

real_quick_ratio(a, b) ==
    calculate_ratio(Min2(Len(a), Len(b)), Len(a) + Len(b))

\* r >= cutoff, with the cutoff 0.2 = 1/5 of get_close_matches
AtLeastCutoff(r) == 5 * r[1] >= r[2]

RatioLess(r, q) == r[1] * q[2] < q[1] * r[2]

\* The "no station" result of name resolution (Python's None)
None == 0

\* get_close_matches(words, possibilities): possibilities is a set of
\* <<name, station id>>; the result is max(result)[1], the pair with the
\* greatest ratio and, at equal ratios, the greatest station id.
get_close_matches(words, possibilities) ==
    LET pairs == {wp \in Range(words) \X possibilities :
                    /\ AtLeastCutoff(real_quick_ratio(wp[2][1], wp[1]))
                    /\ AtLeastCutoff(quick_ratio(wp[2][1], wp[1]))
                    /\ AtLeastCutoff(ratio(wp[2][1], wp[1]))}
        good == {<<ratio(wp[2][1], wp[1]), wp[2][2]>> : wp \in pairs}
    IN IF good = {} THEN None
       ELSE (CHOOSE x \in good : \A y \in good :
                \/ RatioLess(y[1], x[1])
                \/ (~RatioLess(x[1], y[1]) /\ y[2] <= x[2]))[2]

----------------------------------------------------------------------------
(* The station table.  Station ids are 1, 2, 3 in the order of            *)
(* data['stations']; 0 stands for Python's None.                           *)

Stations == {1, 2, 3}

\* data['stations'][id]['name']
StationName(id) ==
    CASE id = 1 -> <<"A", "b", "|", "c">>
      [] id = 2 -> <<"2", "|", "e">>
      [] OTHER  -> <<"d", "|", "c", "/", "e">>

\* STATION_TABLE as main() passes it on: keys and values lower-cased
STATION_TABLE == {<< <<"x">>, <<"a", "b">> >>}

\* if sta in STATION_TABLE: sta = STATION_TABLE[sta], for any table
AliasIn(table, sta) ==
    IF \E p \in table : p[1] = sta
    THEN (CHOOSE p \in table : p[1] = sta)[2]
    ELSE sta

Alias(sta) == AliasIn(STATION_TABLE, sta)

SetMax(S) == CHOOSE x \in S : \A y \in S : y <= x

\* The four lower-cased spellings of a station name that a query may give:
\* s_1 (the whole name), s_2, s_2_2 and s_3
NameCandidates(name) ==
    LET s_split == Split(name, "|")
        s_2_2 == s_split[Len(s_split)]
        s_2 == LET q == Split(s_2_2, "/") IN q[Len(q)]
        s_3 == s_split[1]
    IN {Lower(name), Lower(s_2), Lower(s_2_2), Lower(s_3)}

\* sta_try of station_name_to_id
StaTry(sta) == LET tra1 == S2T(sta) IN <<sta, tra1, T2JP(tra1)>>

\* The station the exact-match loop leaves in `output`: the last station,
\* in dict order, one of whose spellings is in sta_try; None without one.
ExactMatchIn(names, sta_try) ==
    LET hits == {id \in DOMAIN names :
                   \E i \in 1..Len(sta_try) :
                      sta_try[i] \in NameCandidates(names[id])}
    IN IF hits = {} THEN None ELSE SetMax(hits)

ExactMatch(sta_try) ==
    ExactMatchIn([id \in Stations |-> StationName(id)], sta_try)

\* station_name_to_id of mtr_pathfinder_v4.py (no name cache)
station_name_to_id_v4(name) ==
    LET sta == Alias(Lower(name))
        sta_try == StaTry(sta)
        output == ExactMatch(sta_try)
    IN IF output = None
       THEN get_close_matches(sta_try,
                              {<<StationName(id), id>> : id \in Stations})
       ELSE output

\* data['stations'][id]['station'], read back by sta_id()
StationNum(id) == id - 1

----------------------------------------------------------------------------
(* gen_timetable and load_tt (mtr_pathfinder_v4.py) *)

DaySeconds == 86400
HourSeconds == 3600

NoTrip == -1
NoTerminus == 0

\* round(x / 1000): Python rounds halves to the even neighbour
Round1000(x) ==
    LET q == x \div 1000
        r == x % 1000
    IN IF r < 500 THEN q
       ELSE IF r > 500 THEN q + 1
       ELSE IF q % 2 = 0 THEN q ELSE q + 1

\* A connection of the timetable: the tuple (c[0], c[1], c[2], c[3], c[4])
\* and, for a ride after load_tt, c[5] = trip_no.  detail is
\* <<route id, terminus, platform>> or <<walk label, '', None>>.
RTConn(ds, as, dt, at, detail, trip_no) ==
    [dep |-> ds, arr |-> as, dep_time |-> dt, arr_time |-> at,
     detail |-> detail, trip |-> trip_no]

WalkDetail(label) == <<label, NoTerminus, "None">>

\* The walks appended after a hop's arrival at station2 (and from the
\* origin in load_tt): one per station of cons that is not avoided and has
\* a walking time from station2
RECURSIVE WalkConns(_, _, _, _, _, _)
WalkConns(data, station2, cons, arr_time, label, avoid_ids) ==
    IF cons = <<>> THEN <<>>
    ELSE LET con == Head(cons)
             rest == WalkConns(data, station2, Tail(cons), arr_time, label,
                               avoid_ids)
         IN IF con \in avoid_ids
               \/ <<station2, con>> \notin DOMAIN data.transfer_time
            THEN rest
            ELSE <<RTConn(StationNum(station2), StationNum(con), arr_time,
                          arr_time
                            + Round1000(data.transfer_time[<<station2, con>>]),
                          WalkDetail(label), NoTrip)>> \o rest

\* list(data['stations'].keys())
AllStationsSeq == <<1, 2, 3>>

\* GenHops without the line `dep -= dwell`
RECURSIVE GenHopsDwellForgotten(_, _, _, _, _, _, _)
GenHopsDwellForgotten(data, route_id, r, i, dep, wild, avoid_ids) ==
    IF i < 2 THEN <<>>
    ELSE
      LET station1 == r.stations[i - 1].id
          station2 == r.stations[i].id
          dur == Round1000(r.durations[i - 1])
          ride == IF station1 \notin avoid_ids /\ station2 \notin avoid_ids
                  THEN <<RTConn(StationNum(station1), StationNum(station2),
                                dep - dur, dep,
                                <<route_id, r.stations[Len(r.stations)].id,
                                  r.stations[i - 1].name>>, NoTrip)>>
                  ELSE <<>>
          transfer == WalkConns(data, station2, data.connections[station2],
                                dep, "Walk-transfer", avoid_ids)
          wildwalk == IF wild
                      THEN WalkConns(data, station2, AllStationsSeq,
                                     dep, "Walk-wild", avoid_ids)
                      ELSE <<>>
          emitted == IF StationNum(station1) = StationNum(station2)
                        \/ station2 \in avoid_ids
                     THEN <<>>
                     ELSE ride \o transfer \o wildwalk
      IN emitted \o GenHopsDwellForgotten(data, route_id, r, i - 1,
                                          dep - dur, wild, avoid_ids)

\* The loop `for i in range(len(station_ids) - 1, 0, -1)`; i is the 1-based
\* place of station2 in the route and dep the running `dep`.
RECURSIVE GenHops(_, _, _, _, _, _, _)
GenHops(data, route_id, r, i, dep, wild, avoid_ids) ==
    IF i < 2 THEN <<>>
    ELSE
      LET station1 == r.stations[i - 1].id
          station2 == r.stations[i].id
          platform == r.stations[i - 1].name
          dur == Round1000(r.durations[i - 1])
          arr_time == dep
          dep_time == dep - dur
          dwell == Round1000(r.stations[i - 1].dwellTime)
          ride == IF station1 \notin avoid_ids /\ station2 \notin avoid_ids
                  THEN <<RTConn(StationNum(station1), StationNum(station2),
                                dep_time, arr_time,
                                <<route_id, r.stations[Len(r.stations)].id,
                                  platform>>, NoTrip)>>
                  ELSE <<>>
          transfer == WalkConns(data, station2, data.connections[station2],
                                arr_time, "Walk-transfer", avoid_ids)
          wildwalk == IF wild
                      THEN WalkConns(data, station2, AllStationsSeq,
                                     arr_time, "Walk-wild", avoid_ids)
                      ELSE <<>>
          emitted == IF StationNum(station1) = StationNum(station2)
                        \/ station2 \in avoid_ids
                     THEN <<>>
                     ELSE ride \o transfer \o wildwalk
      IN emitted \o GenHops(data, route_id, r, i - 1, dep - dur - dwell,
                            wild, avoid_ids)

\* The routes gen_timetable keeps.  The queries of the model leave
\* IGNORED_LINES and ONLY_LINES empty, CALCULATE_HIGH_SPEED and
\* CALCULATE_BOAT true and ONLY_LRT false, so only the checks on the
\* durations can skip a route.
KeptRoute(data, route_id) ==
    /\ route_id \in DOMAIN data.routes
    /\ data.routes[route_id].durations # <<>>
    /\ Len(data.routes[route_id].stations) - 1
          <= Len(data.routes[route_id].durations)

gen_timetable(data, args) ==
    LET avoid_ids == {station_name_to_id_v4(args.AVOID_STATIONS[k]) :
                        k \in 1..Len(args.AVOID_STATIONS)}
        kept == {id \in Range(data.dep_order) : KeptRoute(data, id)}
    IN [route_id \in kept |->
          LET r0 == data.routes[route_id]
              n == Len(r0.stations)
              r == [r0 EXCEPT !.durations = SubSeq(r0.durations, 1, n - 1)]
              dep == IF n > 0
                     THEN -Round1000(r.stations[n].dwellTime) ELSE 0
          IN GenHops(data, route_id, r, n, dep,
                     args.CALCULATE_WALKING_WILD, avoid_ids)]

\* One dispatch: the template shifted by `departure`
RECURSIVE ExpandTrip(_, _, _, _, _)
ExpandTrip(tt, departure, trip_no, dep_t, max_time) ==
    IF tt = <<>> THEN <<>>
    ELSE LET t == Head(tt)
             neg == t.dep_time + departure < 0
             t2 == t.dep_time + departure + (IF neg THEN DaySeconds ELSE 0)
             t3 == t.arr_time + departure + (IF neg THEN DaySeconds ELSE 0)
             rest == ExpandTrip(Tail(tt), departure, trip_no, dep_t, max_time)
         IN IF max_time - DaySeconds < t2 /\ t2 < dep_t
            THEN rest
            ELSE <<[t EXCEPT !.dep_time = t2, !.arr_time = t3,
                             !.trip = IF t.detail[2] # NoTerminus
                                      THEN trip_no ELSE NoTrip]>> \o rest

\* `for departure in departures`, left at the first one >= max_time:
\* the connections of each trip, one list per trip
RECURSIVE ExpandDepartures(_, _, _, _, _)
ExpandDepartures(tt, departures, trip_no, dep_t, max_time) ==
    IF departures = <<>> \/ Head(departures) >= max_time THEN <<>>
    ELSE <<ExpandTrip(tt, Head(departures), trip_no, dep_t, max_time)>>
         \o ExpandDepartures(tt, Tail(departures), trip_no + 1, dep_t,
                             max_time)

\* departures += [x + 86400 for x in departures if x <= max_time - 86400]
RECURSIVE NextDay(_, _)
NextDay(departures, max_time) ==
    IF departures = <<>> THEN <<>>
    ELSE (IF Head(departures) <= max_time - DaySeconds
          THEN <<Head(departures) + DaySeconds>> ELSE <<>>)
         \o NextDay(Tail(departures), max_time)

WithNextDay(departures, max_time) ==
    IF max_time > DaySeconds
    THEN departures \o NextDay(departures, max_time)
    ELSE departures

\* `for route_id, departures in dep_data.items()`: the trips of all routes,
\* numbered from trip_no on
RECURSIVE ExpandRoutes(_, _, _, _, _, _)
ExpandRoutes(tts, data, order, trip_no, dep_t, max_time) ==
    IF order = <<>> THEN <<>>
    ELSE LET route_id == Head(order)
             these == IF route_id \in DOMAIN tts
                      THEN ExpandDepartures(
                              tts[route_id],
                              WithNextDay(data.dep_data[route_id], max_time),
                              trip_no, dep_t, max_time)
                      ELSE <<>>
         IN these \o ExpandRoutes(tts, data, Tail(order),
                                  trip_no + Len(these), dep_t, max_time)

RECURSIVE Flatten(_)
Flatten(ss) == IF ss = <<>> THEN <<>> ELSE Head(ss) \o Flatten(Tail(ss))

\* trips[str(trip_no)]: station -> the dep_time last written for it
TripMap(cs) ==
    LET rides == {i \in 1..Len(cs) : cs[i].trip # NoTrip}
    IN [s \in {cs[i].dep : i \in rides} |->
          cs[SetMax({i \in rides : cs[i].dep = s})].dep_time]

\* list.sort(key=itemgetter(2)): a stable sort by dep_time
RECURSIVE InsertByDepTime(_, _)
InsertByDepTime(sorted, c) ==
    IF sorted = <<>> THEN <<c>>
    ELSE IF sorted[Len(sorted)].dep_time <= c.dep_time
         THEN Append(sorted, c)
         ELSE Append(InsertByDepTime(SubSeq(sorted, 1, Len(sorted) - 1), c),
                     sorted[Len(sorted)])

\* load_tt without its last statement, the sort
SortOmitted(cs) == cs

RECURSIVE SortByDepTime(_)
SortByDepTime(cs) ==
    IF cs = <<>> THEN <<>>
    ELSE InsertByDepTime(SortByDepTime(SubSeq(cs, 1, Len(cs) - 1)),
                         cs[Len(cs)])

\* load_tt: [] for an unresolved station, else (timetable, trips)
load_tt(tts, data, args) ==
    LET start_station == station_name_to_id_v4(args.station1)
        end_station == station_name_to_id_v4(args.station2)
        dep_t == args.departure_time
        origin == WalkConns(data, start_station,
                            data.connections[start_station], dep_t,
                            "Walk-transfer", {})
                  \o (IF args.CALCULATE_WALKING_WILD
                      THEN WalkConns(data, start_station, AllStationsSeq,
                                     dep_t, "Walk-wild", {})
                      ELSE <<>>)
        max_time == dep_t + args.MAX_HOUR * HourSeconds
        alltrips == ExpandRoutes(tts, data, data.dep_order, 0, dep_t,
                                 max_time)
    IN IF start_station = None \/ end_station = None
       THEN [resolved |-> FALSE, timetable |-> <<>>, trips |-> <<>>]
       ELSE [resolved |-> TRUE,
             timetable |-> SortByDepTime(origin \o Flatten(alltrips)),
             trips |-> [k \in 0..(Len(alltrips) - 1) |->
                         TripMap(alltrips[k + 1])]]

----------------------------------------------------------------------------
(* Specification SpecRT: main() of mtr_pathfinder_v4.py on a small network *)

\* Station names a query may give: "" and "zz" name no station, "ab" and
\* "c" are spellings of station 1, "abc" is close to "Ab|c", "1" is "2"
\* after s2t, "e" is a spelling of stations 2 and 3, "x" is an alias.
StartNames == {<<>>, <<"a", "b">>, <<"a", "b", "c">>, <<"1">>}
EndNames == {<<"c">>, <<"z", "z">>, <<"e">>}

RouteStop(id, dwell) == [id |-> id, name |-> "1", dwellTime |-> dwell]

\* data['routes'][route_id], reduced to what gen_timetable reads
RouteRec(shape, dur, dwell) ==
    [stations |-> [i \in 1..Len(shape) |-> RouteStop(shape[i], dwell)],
     durations |-> [i \in 1..(Len(shape) - 1) |-> dur]]

RouteShapes == {<<1, 2, 3>>, <<3, 2, 1>>, <<1, 2>>}
HopDurations == {120000, 400}
DwellTimes == {0, 20000}
DepartureLists == {<<86340>>, <<100, 86340>>}

\* The second route: 2 -> 3 in one minute, dispatched at 50 and 86350
SecondRoute == RouteRec(<<2, 3>>, 60000, 0)
SecondDepartures == <<50, 86350>>

\* Walks: none, a declared transfer 2 <-> 3, a walk 1 <-> 2 that only the
\* wild-walking option uses.  transfer_time is kept in thousandths of a
\* second so that round() of it is Round1000.
NoConnections == [id \in Stations |-> <<>>]
WalkChoices ==
    {[connections |-> NoConnections, transfer_time |-> <<>>],
     [connections |-> [NoConnections EXCEPT ![2] = <<3>>, ![3] = <<2>>],
      transfer_time |-> (<<2, 3>> :> 400) @@ (<<3, 2>> :> 400)],
     [connections |-> NoConnections,
      transfer_time |-> (<<1, 2>> :> 30000) @@ (<<2, 1>> :> 30000)]}

RTData ==
    {[routes |-> IF second
                 THEN ("R1" :> RouteRec(shape, dur, dwell))
                      @@ ("R2" :> SecondRoute)
                 ELSE ("R1" :> RouteRec(shape, dur, dwell)),
      dep_order |-> IF second THEN <<"R1", "R2">> ELSE <<"R1">>,
      dep_data |-> IF second
                   THEN ("R1" :> deps) @@ ("R2" :> SecondDepartures)
                   ELSE ("R1" :> deps),
      connections |-> w.connections,
      transfer_time |-> w.transfer_time] :
        shape \in RouteShapes, dur \in HopDurations, dwell \in DwellTimes,
        deps \in DepartureLists, second \in BOOLEAN, w \in WalkChoices}

RTArgs ==
    [station1 : StartNames, station2 : EndNames,
     departure_time : {86400, 86300 + 86400},
     MAX_HOUR : {1, 3},
     CALCULATE_WALKING_WILD : BOOLEAN,
     AVOID_STATIONS : {<<>>, <<<<"1">>>>},
     DETAIL : {FALSE}]

InitRT ==
    /\ rt_data \in RTData
    /\ rt_args \in RTArgs
    /\ tt_dict = <<>>
    /\ timetable = <<>>
    /\ trips = <<>>
    /\ rt_pc = "start"
    /\ rt_out = "running"
    /\ route_new = <<>>
    /\ rt_path = <<>>
    /\ CSAIdle
    /\ GraphIdle
    /\ IntervalIdle
    /\ ResolveIdle

\* main(): departure_time %= 86400, then gen_timetable
GenTimetable ==
    /\ rt_pc = "start"
    /\ rt_args' = [rt_args EXCEPT !.departure_time = @ % DaySeconds]
    /\ tt_dict' = gen_timetable(rt_data, rt_args')
    /\ rt_pc' = "gen"
    /\ UNCHANGED <<rt_data, timetable, trips, rt_out, route_new, rt_path>>
    /\ UNCHANGED csaVars

\* main(): tt, trips = load_tt(...).  load_tt returns the empty list for an
\* unresolved station, and unpacking it into two names raises ValueError.
LoadTT ==
    /\ rt_pc = "gen"
    /\ LET r == load_tt(tt_dict, rt_data, rt_args)
       IN IF r.resolved
          THEN /\ timetable' = r.timetable
               /\ trips' = r.trips
               /\ rt_pc' = "loaded"
               /\ rt_out' = rt_out
          ELSE /\ rt_pc' = "done"
               /\ rt_out' = "ValueError"
               /\ UNCHANGED <<timetable, trips>>
    /\ UNCHANGED <<rt_data, rt_args, tt_dict, route_new, rt_path>>
    /\ UNCHANGED csaVars

\* main(): csa = CSA(...), s1 and s2 resolved, `return None` or the call
\* csa.compute(s1, s2, departure_time)
CallCompute ==
    /\ rt_pc = "loaded"
    /\ LET s1 == station_name_to_id_v4(rt_args.station1)
           s2 == station_name_to_id_v4(rt_args.station2)
       IN IF s1 = None \/ s2 = None
          THEN /\ rt_pc' = "done"
               /\ rt_out' = "None"
               /\ UNCHANGED csaVars
          ELSE /\ rt_pc' = "csa"
               /\ rt_out' = rt_out
               /\ connections' = timetable
               /\ max_stations' = Cardinality(Stations)
               /\ departure_station' = StationNum(s1)
               /\ arrival_station' = StationNum(s2)
               /\ departure_time' = rt_args.departure_time
               /\ csa_pc' = "start"
               /\ UNCHANGED <<earliest_arrival, in_connection, earliest, idx,
                              route, timeout_min, start_time, clock>>
    /\ UNCHANGED <<rt_data, rt_args, tt_dict, timetable, trips, route_new,
                   rt_path>>

\* the first checks of process_path
process_path_v4(result, start, end) ==
    LET start_station == station_name_to_id_v4(start)
        end_station == station_name_to_id_v4(end)
    IN IF start_station = None \/ end_station = None
          \/ start_station = end_station
       THEN "None"
       ELSE "path"

\* process_path's inner loop `for j in range(i - 1, -1, -1)`: every
\* earlier connection whose departure station the trip of new_leg leaves
\* not before that connection leaves moves the leg's start there.
\* st is [leg, low_i].
RECURSIVE ExtendLeft(_, _, _, _)
ExtendLeft(result, trip, j, st) ==
    IF j = 0 THEN st
    ELSE LET old_leg == result[j]
             trip_index == old_leg.dep
         IN ExtendLeft(result, trip, j - 1,
               IF trip_index \in DOMAIN trip
                  /\ trip[trip_index] >= old_leg.dep_time
               THEN [leg |-> RTConn(trip_index, st.leg.arr, trip[trip_index],
                                    st.leg.arr_time, old_leg.detail,
                                    st.leg.trip),
                     low_i |-> j]
               ELSE st)

\* process_path's first loop, from the last connection back, and
\* route_new.reverse(): connections i of result[1..i] not below low_i are
\* skipped, a walk (len(new_leg) < 6) is kept as it is
RECURSIVE JoinTrips(_, _, _, _)
JoinTrips(result, trip_maps, i, low_i) ==
    IF i = 0 THEN <<>>
    ELSE IF i >= low_i THEN JoinTrips(result, trip_maps, i - 1, low_i)
    ELSE IF result[i].trip = NoTrip
         THEN Append(JoinTrips(result, trip_maps, i - 1, low_i), result[i])
    ELSE LET st == ExtendLeft(result, trip_maps[result[i].trip], i - 1,
                              [leg |-> result[i], low_i |-> low_i])
         IN Append(JoinTrips(result, trip_maps, i - 1, st.low_i), st.leg)

\* con[4][:2] != last_detail, last_detail being None or the whole con[4]
DetailDiffers(detail, last_detail) == SubSeq(detail, 1, 2) # last_detail

\* process_path's second loop over route_new; legs is `path` so far
RECURSIVE MergeLegs(_, _, _, _, _)
MergeLegs(cons, detail, k, legs, last_detail) ==
    IF k > Len(cons) THEN legs
    ELSE LET con == cons[k]
         IN MergeLegs(cons, detail, k + 1,
               IF DetailDiffers(con.detail, last_detail) \/ detail
               THEN Append(legs, con)
               ELSE [legs EXCEPT ![Len(legs)].arr_time = con.arr_time,
                                 ![Len(legs)].arr = con.arr],
               con.detail)

\* main(): `if result == []: return False`, else process_path's answer
Return ==
    /\ rt_pc = "csa"
    /\ csa_pc = "done"
    /\ rt_pc' = "done"
    /\ rt_out' = IF route = <<>> THEN "False"
                 ELSE process_path_v4(route, rt_args.station1,
                                      rt_args.station2)
    /\ route_new' = IF rt_out' = "path"
                    THEN JoinTrips(route, trips, Len(route), MAX_INT)
                    ELSE <<>>
    /\ rt_path' = MergeLegs(route_new', rt_args.DETAIL, 1, <<>>, <<>>)
    /\ UNCHANGED <<rt_data, rt_args, tt_dict, timetable, trips>>
    /\ UNCHANGED csaVars

RTStep ==
    \/ GenTimetable
    \/ LoadTT
    \/ CallCompute
    \/ (CSAStep /\ UNCHANGED rtVars)
    \/ Return

NextRT == RTStep /\ UNCHANGED <<graphVars, intervalVars, resolveVars>>

SpecRT == InitRT /\ [][NextRT]_vars

----------------------------------------------------------------------------
(* Specification SpecLegs: main() of mtr_pathfinder_v4.py on networks on
   which process_path has trips to join: a route that comes back to its
   first station, and walks of one length between 1, 2 and 3 *)

LegShapes == {<<1, 2, 3>>, <<2, 3, 1, 2>>, <<1, 2>>}

\* transfer_dist is the same for every pair, so every wild walk carries
\* the same label
LegWalks ==
    {[connections |-> NoConnections,
      transfer_time |-> (<<1, 2>> :> 30000) @@ (<<2, 1>> :> 30000)],
     [connections |-> NoConnections,
      transfer_time |-> (<<1, 2>> :> 30000) @@ (<<2, 1>> :> 30000)
                        @@ (<<2, 3>> :> 30000) @@ (<<3, 2>> :> 30000)]}

LegsData ==
    {[routes |-> ("R1" :> RouteRec(shape, 120000, dwell)),
      dep_order |-> <<"R1">>,
      dep_data |-> ("R1" :> deps),
      connections |-> w.connections,
      transfer_time |-> w.transfer_time] :
        shape \in LegShapes, dwell \in DwellTimes,
        deps \in DepartureLists, w \in LegWalks}

LegsArgs ==
    [station1 : {<<"a", "b">>, <<"1">>}, station2 : {<<"e">>, <<"c">>},
     departure_time : {86400, 86300 + 86400},
     MAX_HOUR : {3},
     CALCULATE_WALKING_WILD : BOOLEAN,
     AVOID_STATIONS : {<<>>},
     DETAIL : BOOLEAN]

InitLegs ==
    /\ rt_data \in LegsData
    /\ rt_args \in LegsArgs
    /\ tt_dict = <<>>
    /\ timetable = <<>>
    /\ trips = <<>>
    /\ rt_pc = "start"
    /\ rt_out = "running"
    /\ route_new = <<>>
    /\ rt_path = <<>>
    /\ CSAIdle
    /\ GraphIdle
    /\ IntervalIdle
    /\ ResolveIdle

SpecLegs == InitLegs /\ [][NextRT]_vars

----------------------------------------------------------------------------
(* Claims about the REALTIME query *)

Loaded == rt_pc \in {"loaded", "csa", "done"} /\ rt_out # "ValueError"

IsRide(c) == c.detail[2] # NoTerminus

\* C10: the connection list load_tt returns is sorted by dep_time, the
\* origin-departure walks and the connections shifted by 86400 included.
C10_LoadTTSorted == Loaded => IsSorted(timetable)

\* C10 witness: a returned list holding an origin-departure walk and, after
\* it, a connection of the next day
C10_Witness ==
    /\ rt_pc = "loaded"
    /\ \E i \in 1..Len(timetable) : \E j \in 1..Len(timetable) :
          /\ ~IsRide(timetable[i])
          /\ timetable[i].dep_time = rt_args.departure_time
          /\ timetable[i].dep
                = StationNum(station_name_to_id_v4(rt_args.station1))
          /\ timetable[j].dep_time >= DaySeconds
          /\ IsRide(timetable[j])
          /\ i < j

MaxTimeOf(args) == args.departure_time + args.MAX_HOUR * HourSeconds

\* The dispatches of a route that load_tt expands: the table's entries
\* below max_time, and an entry plus 86400 where that is below max_time
Dispatches(route_id) ==
    LET deps == Range(rt_data.dep_data[route_id])
        max_time == MaxTimeOf(rt_args)
    IN {d \in deps : d < max_time}
       \cup {d + DaySeconds : d \in {x \in deps : x + DaySeconds < max_time}}

\* Arrival of hop k (stop k to stop k+1) timed backward from dispatch d
RECURSIVE BackwardArr(_, _, _)
BackwardArr(r, k, d) ==
    IF k >= Len(r.stations) - 1
    THEN d - Round1000(r.stations[Len(r.stations)].dwellTime)
    ELSE BackwardArr(r, k + 1, d) - Round1000(r.durations[k + 1])
                                  - Round1000(r.stations[k + 1].dwellTime)

\* Departure of hop k timed forward from dispatch d
RECURSIVE ForwardDep(_, _, _)
ForwardDep(r, k, d) ==
    IF k <= 1 THEN d
    ELSE ForwardDep(r, k - 1, d) + Round1000(r.durations[k - 1])
                                 + Round1000(r.stations[k].dwellTime)

HasRide(route_id, r, k, dt, at) ==
    \E i \in 1..Len(timetable) :
        /\ IsRide(timetable[i])
        /\ timetable[i].detail[1] = route_id
        /\ timetable[i].dep = StationNum(r.stations[k].id)
        /\ timetable[i].arr = StationNum(r.stations[k + 1].id)
        /\ timetable[i].dep_time = dt
        /\ timetable[i].arr_time = at

AvoidIds == {station_name_to_id_v4(rt_args.AVOID_STATIONS[k]) :
               k \in 1..Len(rt_args.AVOID_STATIONS)}

\* Hop k of the trip dispatched at d, timed backward: present?, dep, arr
BackwardHop(r, k, d) ==
    LET a0 == BackwardArr(r, k, d)
        d0 == a0 - Round1000(r.durations[k])
        sh == IF d0 < 0 THEN DaySeconds ELSE 0
    IN [dep_time |-> d0 + sh, arr_time |-> a0 + sh,
        kept |-> /\ ~(/\ MaxTimeOf(rt_args) - DaySeconds < d0 + sh
                      /\ d0 + sh < rt_args.departure_time)
                 /\ r.stations[k].id \notin AvoidIds
                 /\ r.stations[k + 1].id \notin AvoidIds]

\* The example of the claim: A-B-C dispatched at 86340, two hops of 120 s,
\* no dwell, no walks, query from A to C at 86300 with MAX_HOUR 1
C6Example ==
    /\ rt_data = [routes |-> ("R1" :> RouteRec(<<1, 2, 3>>, 120000, 0)),
                  dep_order |-> <<"R1">>,
                  dep_data |-> ("R1" :> <<86340>>),
                  connections |-> NoConnections,
                  transfer_time |-> <<>>]
    /\ rt_args.station1 = <<"a", "b">>
    /\ rt_args.station2 = <<"e">>
    /\ rt_args.departure_time = 86300
    /\ rt_args.MAX_HOUR = 1
    /\ rt_args.AVOID_STATIONS = <<>>

\* C6 (as the claim states it): a trip dispatched at d inside the horizon
\* has its hops timed forward from d: the first hop departs at d, each hop
\* arrives at its departure plus the hop duration, the next departs after
\* the dwell; in the example the CSA reaches C at 86580.
C6_HopsTimedForward ==
    (Loaded /\ rt_args.AVOID_STATIONS = <<>>) =>
        /\ \A route_id \in DOMAIN rt_data.routes :
             LET r == rt_data.routes[route_id] IN
             \A d \in Range(rt_data.dep_data[route_id]) :
                (rt_args.departure_time <= d /\ d <= MaxTimeOf(rt_args)) =>
                   \A k \in 1..(Len(r.stations) - 1) :
                      HasRide(route_id, r, k, ForwardDep(r, k, d),
                              ForwardDep(r, k, d)
                                + Round1000(r.durations[k]))
        /\ (C6Example /\ rt_pc = "done") =>
              /\ rt_out = "path"
              /\ earliest_arrival[2] = 86580

\* C6 (amended): a trip dispatched at d below departure_time + 3600*MAX_HOUR
\* (d a table entry, or a table entry plus 86400) has its hops timed
\* backward from d: the last hop arrives at d minus the last stop's dwell,
\* each hop departs at its arrival minus the hop duration, the hop before it
\* arrives that stop's dwell earlier; 86400 is added to both times of a hop
\* whose departure would be negative; a hop departing strictly between
\* departure_time + 3600*MAX_HOUR - 86400 and departure_time, or touching an
\* avoided station, is left out; the list holds no other ride.  In the
\* example the hops are A->B 86100->86220 and B->C 86220->86340, both left
\* out, and the query finds no route.
C6_HopsTimedBackward ==
    Loaded =>
        /\ \A route_id \in DOMAIN rt_data.routes :
             LET r == rt_data.routes[route_id] IN
             \A d \in Dispatches(route_id) :
                \A k \in 1..(Len(r.stations) - 1) :
                   LET h == BackwardHop(r, k, d) IN
                   h.kept <=> HasRide(route_id, r, k, h.dep_time, h.arr_time)
        /\ \A i \in 1..Len(timetable) :
             IsRide(timetable[i]) =>
                LET route_id == timetable[i].detail[1]
                    r == rt_data.routes[route_id]
                IN \E d \in Dispatches(route_id) :
                      \E k \in 1..(Len(r.stations) - 1) :
                         /\ BackwardHop(r, k, d).kept
                         /\ timetable[i].dep_time
                               = BackwardHop(r, k, d).dep_time
                         /\ timetable[i].arr_time
                               = BackwardHop(r, k, d).arr_time
                         /\ timetable[i].dep = StationNum(r.stations[k].id)
        /\ (C6Example /\ rt_pc = "done") =>
              /\ BackwardHop(rt_data.routes["R1"], 1, 86340)
                   = [dep_time |-> 86100, arr_time |-> 86220, kept |-> FALSE]
              /\ BackwardHop(rt_data.routes["R1"], 2, 86340)
                   = [dep_time |-> 86220, arr_time |-> 86340, kept |-> FALSE]
              /\ rt_out = "False"

\* C6 witness: a finished query over a three-stop route with dwell whose
\* trip lost its first hop to the horizon filter and kept its second, which
\* the answer rides
C6_Witness ==
    /\ rt_pc = "done"
    /\ rt_out = "path"
    /\ Len(rt_data.routes["R1"].stations) = 3
    /\ rt_data.routes["R1"].stations[2].dwellTime > 0
    /\ \E d \in Dispatches("R1") :
          /\ ~BackwardHop(rt_data.routes["R1"], 1, d).kept
          /\ BackwardHop(rt_data.routes["R1"], 2, d).kept
          /\ \E i \in 1..Len(route) :
                /\ IsRide(route[i])
                /\ route[i].detail[1] = "R1"
                /\ route[i].dep_time
                      = BackwardHop(rt_data.routes["R1"], 2, d).dep_time

Unresolved(name) == station_name_to_id_v4(name) = None

\* C3: a query whose start or end names no station ends with the
\* 'incorrect station' outcome None, returned as a value: not False, not an
\* exception.
C3_UnresolvedReturnsNone ==
    (rt_pc = "done"
       /\ (Unresolved(rt_args.station1) \/ Unresolved(rt_args.station2)))
        => rt_out = "None"

\* C4: a query whose start and end resolve to the same station ends with
\* the 'incorrect station' outcome None, never not-found nor a path.
C4_SameStationReturnsNone ==
    (rt_pc = "done"
       /\ ~Unresolved(rt_args.station1)
       /\ station_name_to_id_v4(rt_args.station1)
             = station_name_to_id_v4(rt_args.station2))
        => rt_out = "None"

----------------------------------------------------------------------------
(* create_graph (mtr_pathfinder.py), MTR_VER = 3                           *)
(*                                                                         *)
(* Times are the source's floats, kept exact: one unit is 1/TimeScale of a *)
(* second, so that a distance in whole blocks divided by 4.317 or by 2.25, *)
(* and a duration in whole ticks divided by 20, are whole numbers.         *)

TimeScale == 777060

Sec(n) == n * TimeScale

\* dist / TRANSFER_SPEED
TransferTime(dist) == dist * 180000
\* dist / WILD_WALKING_SPEED
WildTime(dist) == dist * 345360
\* ticks / SERVER_TICK
TickTime(ticks) == ticks * 38853

\* 'x' in station_dict and 'z' in station_dict
HasXZ(data, s) == s \in DOMAIN data.x

\* get_distance: the stations of the model lie on the line z = 0
get_distance(data, a, b, square) ==
    LET d == Abs(data.x[a] - data.x[b])
    IN IF square THEN d * d ELSE d

RECURSIVE gcd(_, _)
gcd(a, b) == IF b = 0 THEN a ELSE gcd(b, a % b)

lcm(a, b) == (a * b) \div gcd(a, b)

\* station_name_to_id of mtr_pathfinder.py: answers from tmp_names when the
\* name is cached, caches every answer but None; the fuzzy match only looks
\* at stations with coordinates
MatchName(data, sta_try) ==
    LET exact == ExactMatch(sta_try)
    IN IF exact = None
       THEN get_close_matches(
               sta_try,
               {<<StationName(id), id>> :
                   id \in {x \in Stations : HasXZ(data, x)}})
       ELSE exact

\* if output is not None: tmp_names[sta] = output
Remember(cache, sta, output) ==
    [output |-> output,
     tmp_names |-> IF output # None THEN (sta :> output) @@ cache ELSE cache]

LookUp(data, cache, sta) ==
    IF sta \in DOMAIN cache
    THEN [output |-> cache[sta], tmp_names |-> cache]
    ELSE Remember(cache, sta, MatchName(data, StaTry(sta)))

station_name_to_id_v3(data, cache, name) ==
    LookUp(data, cache, Alias(Lower(name)))

\* station_name_to_id on any station dict (every station with x and z),
\* any STATION_TABLE and any content of tmp_names
station_name_to_id(names, table, cache, name) ==
    LET sta == AliasIn(table, Lower(name))
        sta_try == StaTry(sta)
        exact == ExactMatchIn(names, sta_try)
    IN IF sta \in DOMAIN cache
       THEN [output |-> cache[sta], tmp_names |-> cache]
       ELSE Remember(cache, sta,
                     IF exact = None
                     THEN get_close_matches(
                              sta_try,
                              {<<names[id], id>> : id \in DOMAIN names})
                     ELSE exact)

\* avoid_ids = [station_name_to_id(data, x, STATION_TABLE) for x in ...]
WithId(id, rest) ==
    [ids |-> {id} \cup rest.ids, tmp_names |-> rest.tmp_names]

RECURSIVE ResolveAll(_, _, _)
ResolveAllAfter(data, r, names) ==
    WithId(r.output, ResolveAll(data, r.tmp_names, names))

ResolveAll(data, cache, names) ==
    IF names = <<>> THEN [ids |-> {}, tmp_names |-> cache]
    ELSE ResolveAllAfter(data,
                         station_name_to_id_v3(data, cache, Head(names)),
                         Tail(names))

\* An edge label: a route name, or a walk label with its distance
Label(text, dist) == [text |-> text, dist |-> dist]

TransferLabel(dist) == Label("Walk-transfer", dist)
WildLabel(dist) == Label("Walk-wild", dist)

\* The name of a record or an edge: one label (a str), or in WAITING mode
\* the list of the labels of the parallel routes
NameStr(label) == [list |-> FALSE, names |-> <<label>>]
NameList(labels) == [list |-> TRUE, names |-> labels]

\* A record of edges_attr_dict: (name, duration, waiting)
Rec(name, duration, waiting) ==
    [name |-> name, duration |-> duration, waiting |-> waiting]

Pairs == Stations \X Stations

\* Step A, the loop over station_dict['connections']
DeclaredWalks(data, avoid, s, t) ==
    IF t \notin avoid /\ HasXZ(data, t)
    THEN LET dist == get_distance(data, s, t, FALSE)
             hits == SelectSeq(data.connections[s], LAMBDA c : c = t)
         IN [k \in 1..Len(hits) |->
               Rec(NameStr(TransferLabel(dist)), TransferTime(dist), 0)]
    ELSE <<>>

\* Step A, the loops over additions1 and additions2: station2 is the first
\* station that is not avoided and bears a listed name
AddedWalk(data, avoid, s, t, table, rec) ==
    IF /\ StationName(s) \in DOMAIN table
       /\ \E k \in 1..Len(table[StationName(s)]) :
             LET named == {y \in Stations \ avoid :
                             StationName(y) = table[StationName(s)][k]}
             IN named # {} /\ t = SetMin(named)
       /\ t \notin Range(data.connections[s])
       /\ HasXZ(data, t)
    THEN <<rec>>
    ELSE <<>>

\* Everything Step A appends to edges_attr_dict[(s, t)], in order
WalkRecords(data, args, avoid, s, t) ==
    IF ~HasXZ(data, s) \/ s \in avoid \/ ~HasXZ(data, t) THEN <<>>
    ELSE LET dist == get_distance(data, s, t, FALSE) IN
         DeclaredWalks(data, avoid, s, t)
         \o AddedWalk(data, avoid, s, t, args.TRANSFER_ADDITION,
                      Rec(NameStr(TransferLabel(dist)), TransferTime(dist), 0))
         \o (IF args.CALCULATE_WALKING_WILD
             THEN AddedWalk(data, avoid, s, t, args.WILD_ADDITION,
                            Rec(NameStr(WildLabel(dist)), WildTime(dist), 0))
             ELSE <<>>)

\* s.split('_')[0] of a route's stop "id_platform"
StopStation(stop) == stop[1]

\* Is the route's name, in lower case and stripped, one of
\* TEMP_IGNORED_LINES?  The names of the model are plain ASCII without '|'
\* and differ in more than case.
IgnoredLine(args, r) == r.name \in Range(args.IGNORED_LINES)

\* The routes Step B keeps.  The queries of the model leave CALCULATE_BOAT
\* true and ONLY_LRT false.
KeptGraphRoute(args, iv, r) ==
    /\ ~IgnoredLine(args, r)
    /\ args.CALCULATE_HIGH_SPEED \/ r.type # "train_high_speed"
    /\ (args.route_type = "WAITING") =>
          (r.type = "cable_car_normal" \/ r.name \in DOMAIN iv)
    /\ Len(r.stations) >= 2
    /\ Len(r.stations) - 1 <= Len(r.durations)

\* float(intervals[n]), after `intervals[n] = 2` for a cable car
IntervalOf(iv, r) ==
    IF r.type = "cable_car_normal" THEN 2 ELSE iv[r.name]

RECURSIVE SumSeq(_)
SumSeq(q) == IF q = <<>> THEN 0 ELSE Head(q) + SumSeq(Tail(q))

\* (i, i2) in the order of the two nested loops, 1-based
IndexPairs(n) ==
    LET F[k \in 0..(n * n)] ==
          IF k = 0 THEN <<>>
          ELSE LET i == ((k - 1) \div n) + 1
                   j == ((k - 1) % n) + 2
               IN IF j > i THEN Append(F[k - 1], <<i, j>>) ELSE F[k - 1]
    IN F[n * n]

\* The stations of stations[i:i2 + 1]
Segment(r, i, j) == {StopStation(r.stations[k]) : k \in i..j}

RouteRidesEndpointsOnly(r, avoid, s, t) ==
    LET n == Len(r.stations) - 1
        durs == SubSeq(r.durations, 1, n)
        ips == IndexPairs(n)
        F[k \in 0..Len(ips)] ==
          IF k = 0 THEN <<>>
          ELSE LET i == ips[k][1]
                   j == ips[k][2]
               IN IF /\ StopStation(r.stations[i]) = s
                     /\ StopStation(r.stations[j]) = t
                     /\ {s, t} \cap avoid = {}
                  THEN Append(F[k - 1],
                              TickTime(SumSeq(SubSeq(durs, i, j - 1))))
                  ELSE F[k - 1]
    IN F[Len(ips)]

\* Step B for one route and one station pair: the (dur, i, i2) of every
\* segment from s to t that holds no avoided station
RouteRides(r, avoid, s, t) ==
    LET n == Len(r.stations) - 1
        durs == SubSeq(r.durations, 1, n)
        ips == IndexPairs(n)
        F[k \in 0..Len(ips)] ==
          IF k = 0 THEN <<>>
          ELSE LET i == ips[k][1]
                   j == ips[k][2]
               IN IF /\ StopStation(r.stations[i]) = s
                     /\ StopStation(r.stations[j]) = t
                     /\ Segment(r, i, j) \cap avoid = {}
                  THEN Append(F[k - 1],
                              TickTime(SumSeq(SubSeq(durs, i, j - 1))))
                  ELSE F[k - 1]
    IN F[Len(ips)]

\* Step B for one station pair: what the routes, in order, append to
\* edges_dict[(s, t)] (WAITING) or edges_attr_dict[(s, t)] (THEORY)
RECURSIVE RidesOf(_, _, _, _, _, _)
RidesOf(routes, args, iv, avoid, s, t) ==
    IF routes = <<>> THEN <<>>
    ELSE LET r == Head(routes)
             these == IF KeptGraphRoute(args, iv, r)
                      THEN RouteRides(r, avoid, s, t) ELSE <<>>
         IN [k \in 1..Len(these) |->
               [dur |-> these[k],
                wait |-> IF args.route_type = "WAITING"
                         THEN IntervalOf(iv, r) ELSE 0,
                name |-> r.name]]
            \o RidesOf(Tail(routes), args, iv, avoid, s, t)

\* A dict keyed by station pairs: the pairs with a non-empty list
PairDict(F(_, _)) ==
    [p \in {q \in Pairs : F(q[1], q[2]) # <<>>} |-> F(p[1], p[2])]

RideRec(x) == Rec(NameStr(Label(x.name, 0)), x.dur, 0)

\* original[(route['name'], station_1, station_2)]: the least dur
OriginalOf(ed) ==
    LET keys == UNION {{<<Label(ed[p][k].name, 0), p[1], p[2]>> :
                          k \in 1..Len(ed[p])} : p \in DOMAIN ed}
    IN [key \in keys |->
          LET rides == ed[<<key[2], key[3]>>]
          IN SetMin({rides[k].dur :
                       k \in {j \in 1..Len(rides) :
                                rides[j].name = key[1].text}})]

RECURSIVE LcmAll(_)
LcmAll(q) == IF q = <<>> THEN 1 ELSE lcm(LcmAll(Tail(q)), Head(q))

CombineWholeWait(ed, wwd, p) ==
    LET dur_tup == ed[p]
        min_dur == SetMin({dur_tup[k].dur : k \in 1..Len(dur_tup)})
        final == SelectSeq(dur_tup,
                           LAMBDA x : Abs(x.dur - min_dur) <= Sec(60))
        final_wait == SelectSeq([k \in 1..Len(final) |-> final[k].wait],
                                LAMBDA x : x # 0)
        lcm_sum == LcmAll(final_wait)
        sum_interval == SumSeq([k \in 1..Len(final_wait) |->
                                  lcm_sum \div final_wait[k]])
        sum_int == IF sum_interval = 0 THEN 0
                   ELSE (lcm_sum * TimeScale) \div sum_interval
        walk == p \in DOMAIN wwd
                   /\ Abs(wwd[p].duration - min_dur) <= Sec(60)
    IN [rec |-> Rec(NameList([k \in 1..Len(final) |->
                                 Label(final[k].name, 0)]
                             \o (IF walk THEN <<wwd[p].name>> ELSE <<>>)),
                    min_dur, sum_int),
        walk |-> walk]

\* Step C in WAITING mode for one pair of edges_dict: the routes within
\* 60 s of the fastest, their combined waiting, and the walk of
\* waiting_walking_dict if it is within 60 s of the fastest ride
Combine(ed, wwd, p) ==
    LET dur_tup == ed[p]
        min_dur == SetMin({dur_tup[k].dur : k \in 1..Len(dur_tup)})
        final == SelectSeq(dur_tup,
                           LAMBDA x : Abs(x.dur - min_dur) <= Sec(60))
        final_wait == SelectSeq([k \in 1..Len(final) |-> final[k].wait],
                                LAMBDA x : x # 0)
        lcm_sum == LcmAll(final_wait)
        sum_interval == SumSeq([k \in 1..Len(final_wait) |->
                                  lcm_sum \div final_wait[k]])
        sum_int == IF sum_interval = 0 THEN 0
                   ELSE (lcm_sum * TimeScale) \div (2 * sum_interval)
        walk == p \in DOMAIN wwd
                   /\ Abs(wwd[p].duration - min_dur) <= Sec(60)
    IN [rec |-> Rec(NameList([k \in 1..Len(final) |->
                                 Label(final[k].name, 0)]
                             \o (IF walk THEN <<wwd[p].name>> ELSE <<>>)),
                    min_dur, sum_int),
        walk |-> walk]

\* An edge of G: the attributes weight, name, waiting
Edge(weight, name, waiting) ==
    [weight |-> weight, name |-> name, waiting |-> waiting]

AdmitAll(recs) ==
    LET kept == SelectSeq(recs, LAMBDA r : r.duration + r.waiting > 0)
    IN [k \in 1..Len(kept) |->
          Edge(kept[k].duration + kept[k].waiting, kept[k].name,
               kept[k].waiting)]

AdmitFromFirst(recs) ==
    LET min_time == recs[1].duration + recs[1].waiting
        kept == SelectSeq(recs,
                   LAMBDA r : /\ Abs(r.duration + r.waiting - min_time)
                                   <= Sec(60)
                              /\ r.duration + r.waiting > 0)
    IN [k \in 1..Len(kept) |->
          Edge(kept[k].duration + kept[k].waiting, kept[k].name,
               kept[k].waiting)]

\* Step C, the admission of one pair's records
Admit(recs) ==
    LET min_time == SetMin({recs[k].duration + recs[k].waiting :
                              k \in 1..Len(recs)})
        kept == SelectSeq(recs,
                   LAMBDA r : /\ Abs(r.duration + r.waiting - min_time)
                                   <= Sec(60)
                              /\ r.duration + r.waiting > 0)
    IN [k \in 1..Len(kept) |->
          Edge(kept[k].duration + kept[k].waiting, kept[k].name,
               kept[k].waiting)]

EmptyGraph == [nodes |-> {}, adj |-> [p \in Pairs |-> <<>>]]

has_edge(g, u, v) == g.adj[<<u, v>>] # <<>>

\* G with the edges of adj, every endpoint of an edge added as a node
WithEdges(g, adj) ==
    [nodes |-> g.nodes \cup {p[1] : p \in {q \in Pairs : adj[q] # <<>>}}
                       \cup {p[2] : p \in {q \in Pairs : adj[q] # <<>>}},
     adj |-> adj]

\* Step D, first loop: does the pair (s, t) get a wild-walk record?
WildAdded(data, args, avoid, wwd, g, s, t) ==
    /\ s \notin avoid /\ HasXZ(data, s)
    /\ t \notin avoid /\ HasXZ(data, t)
    /\ s # t
    /\ <<s, t>> \notin DOMAIN wwd
    /\ get_distance(data, s, t, TRUE)
          <= args.MAX_WILD_BLOCKS * args.MAX_WILD_BLOCKS
    /\ ~(/\ has_edge(g, s, t)
         /\ WildTime(get_distance(data, s, t, FALSE))
               - g.adj[<<s, t>>][1].weight > Sec(60))

\* Step D for one ordered pair: the pair's edges afterwards
WildPair(data, args, avoid, wwd, g, s, t) ==
    LET old == g.adj[<<s, t>>]
        dist == get_distance(data, s, t, FALSE)
        duration == WildTime(dist)
        removed == IF has_edge(g, s, t)
                      /\ duration + Sec(120) < old[1].weight
                   THEN SubSeq(old, 1, Len(old) - 1)
                   ELSE old
    IN IF WildAdded(data, args, avoid, wwd, g, s, t)
       THEN Append(removed, Edge(duration, NameStr(WildLabel(dist)), 0))
       ELSE old

\* Step A: edges_attr_dict after the three loops over the walks
WalkDict(data, args, avoid) ==
    LET walks(s, t) == WalkRecords(data, args, avoid, s, t)
    IN PairDict(walks)

\* Step A: waiting_walking_dict, the last walk of every pair
LastWalks(attr) ==
    [p \in DOMAIN attr |->
       [duration |-> attr[p][Len(attr[p])].duration,
        name |-> attr[p][Len(attr[p])].name.names[1]]]

\* Step B in WAITING mode: edges_dict
RideDict(data, args, iv, avoid) ==
    LET rides(s, t) == RidesOf(data.routes, args, iv, avoid, s, t)
    IN PairDict(rides)

\* Step B in THEORY mode: edges_attr_dict with the rides appended
TheoryDict(data, args, iv, avoid, attr) ==
    LET theory(s, t) ==
          (IF <<s, t>> \in DOMAIN attr THEN attr[<<s, t>>] ELSE <<>>)
          \o [k \in 1..Len(RidesOf(data.routes, args, iv, avoid, s, t)) |->
                RideRec(RidesOf(data.routes, args, iv, avoid, s, t)[k])]
    IN PairDict(theory)

\* Step B in WAITING mode: `intervals[n] = 2` for every cable car the
\* loop has not left before (an ignored line)
CableCarIntervals(data, args, iv) ==
    [n \in {data.routes[k].name :
              k \in {j \in 1..Len(data.routes) :
                       /\ data.routes[j].type = "cable_car_normal"
                       /\ ~IgnoredLine(args, data.routes[j])}} |-> 2]
    @@ iv

\* Step C in WAITING mode: every pair of edges_dict gets one record
CombinedDict(ed, wwd, attr) ==
    [p \in DOMAIN ed |-> <<Combine(ed, wwd, p).rec>>] @@ attr

\* Step C in WAITING mode: original[(route_name, s1, s2)] = dur for the
\* walk that joined a pair's routes
WalkOriginal(ed, wwd, orig) ==
    [key \in {<<wwd[p].name, p[1], p[2]>> :
                p \in {q \in DOMAIN ed : Combine(ed, wwd, q).walk}} |->
       wwd[<<key[2], key[3]>>].duration]
    @@ orig

\* Step C: the records of every pair are admitted as edges
AdmitDict(g, attr) ==
    WithEdges(g, [p \in Pairs |->
                    IF p \in DOMAIN attr THEN Admit(attr[p]) ELSE <<>>])

\* Step D: the wild walks between all pairs
WildGraph(data, args, avoid, wwd, g) ==
    WithEdges(g, [p \in Pairs |->
                    WildPair(data, args, avoid, wwd, g, p[1], p[2])])

\* create_graph from Step A to `return G`, as one function of what it reads:
\* the G it returns and the global `original` it leaves, which Step A has
\* bound to a new dict
BodyD(data, args, avoid, wwd, g, orig) ==
    [G |-> IF args.CALCULATE_WALKING_WILD
           THEN WildGraph(data, args, avoid, wwd, g) ELSE g,
     original |-> orig]

BodyC(data, args, avoid, wwd, ed, attr) ==
    IF args.route_type = "WAITING"
    THEN BodyD(data, args, avoid, wwd,
               AdmitDict(EmptyGraph, CombinedDict(ed, wwd, attr)),
               WalkOriginal(ed, wwd, OriginalOf(ed)))
    ELSE BodyD(data, args, avoid, wwd,
               AdmitDict(EmptyGraph,
                         TheoryDict(data, args, data.intervals, avoid, attr)),
               <<>>)

BodyB(data, args, avoid, attr) ==
    BodyC(data, args, avoid, LastWalks(attr),
          IF args.route_type = "WAITING"
          THEN RideDict(data, args, data.intervals, avoid) ELSE <<>>,
          attr)

BodyA(data, args, avoid) ==
    BodyB(data, args, avoid, WalkDict(data, args, avoid))

CreateGraphBody(data, args, cache) ==
    BodyA(data, args, ResolveAll(data, cache, args.AVOID_STATIONS).ids)

\* filename = '': no cache file is read or written
NoFile == <<>>

\* create_graph's filename.  version1 and version2, the modification times
\* of the two data files, are the same for every call of the model; the md5
\* digest of the joined names stands as the list of the names itself.
CacheFileName(args) ==
    IF /\ args.cache
       /\ args.IGNORED_LINES = args.original_ignored_lines
       /\ args.AVOID_STATIONS = <<>>
       /\ args.route_type = "WAITING"
    THEN <<"3", args.CALCULATE_HIGH_SPEED, args.CALCULATE_WALKING_WILD,
           "version1", "version2", args.original_ignored_lines>>
    ELSE NoFile

\* A cache file after pickle.dump((G, original), f) has returned
Pickled(g, orig) == [complete |-> TRUE, G |-> g, original |-> orig]

\* A cache file between open(filename, 'wb') and the end of pickle.dump
PartFile == [complete |-> FALSE, G |-> EmptyGraph, original |-> <<>>]

----------------------------------------------------------------------------
(* find_shortest_route (mtr_pathfinder.py) *)

\* The weight networkx gives a hop of a multigraph: the least weight among
\* the parallel edges
EdgeWeightFirst(g, u, v) == g.adj[<<u, v>>][1].weight

EdgeWeight(g, u, v) ==
    SetMin({g.adj[<<u, v>>][k].weight : k \in 1..Len(g.adj[<<u, v>>])})

RelaxNodes(g, d) ==
    [v \in g.nodes |->
       SetMin({d[v]} \cup
              {d[u] + EdgeWeight(g, u, v) :
                 u \in {x \in g.nodes : d[x] # MAX_INT /\ has_edge(g, x, v)}})]

RECURSIVE RelaxTimes(_, _, _)
RelaxTimes(g, d, n) == IF n = 0 THEN d ELSE RelaxTimes(g, RelaxNodes(g, d), n - 1)

\* The distances Dijkstra's algorithm ends with
DijkstraDist(g, source) ==
    RelaxTimes(g, [v \in g.nodes |-> IF v = source THEN 0 ELSE MAX_INT],
               Cardinality(g.nodes))

\* pred[v]: the nodes a shortest path may reach v from
Pred(g, d, v) ==
    {u \in g.nodes : /\ has_edge(g, u, v)
                     /\ d[u] # MAX_INT
                     /\ d[u] + EdgeWeight(g, u, v) = d[v]}

SimpleSeqs(nodes) ==
    UNION {{q \in [1..k -> nodes] :
              \A i \in 1..k : \A j \in 1..k : i # j => q[i] # q[j]} :
           k \in 1..Cardinality(nodes)}

\* nx.all_shortest_paths(G, source, target, weight='weight'): the paths
\* built from the predecessor lists, none visiting a node twice
all_shortest_paths(g, source, target) ==
    LET d == DijkstraDist(g, source)
    IN {q \in SimpleSeqs(g.nodes) :
          /\ q[1] = source
          /\ q[Len(q)] = target
          /\ \A i \in 1..(Len(q) - 1) : q[i] \in Pred(g, d, q[i + 1])}

Outcome(start, end, outcome, path, dist) ==
    [station1 |-> start, station2 |-> end, outcome |-> outcome,
     shortest_path |-> path, shortest_distance |-> dist]

\* find_shortest_route after the two names are resolved, up to its call of
\* process_path: the results it can reach; sorted(..., key=len)[0] is one of
\* the paths with the fewest nodes
RouteResults(g, start, end, start_station, end_station) ==
    IF start_station = None \/ end_station = None
       \/ start_station = end_station
    THEN {Outcome(start, end, "None", <<>>, -1)}
    ELSE IF start_station \notin g.nodes
    THEN {Outcome(start, end, "False", <<>>, -1)}
    ELSE LET paths == all_shortest_paths(g, start_station, end_station)
         IN IF paths = {}
            THEN {Outcome(start, end, "False", <<>>, -1)}
            ELSE {Outcome(start, end, "path", q,
                          DijkstraDist(g, start_station)[end_station]) :
                    q \in {x \in paths :
                             \A y \in paths : Len(x) <= Len(y)}}

\* ... with start_station resolved, and end_station as r2.output
RouteFrom(g, start, end, start_station, r2) ==
    [tmp_names |-> r2.tmp_names,
     results |-> RouteResults(g, start, end, start_station, r2.output)]

\* end_station = station_name_to_id(data, end, STATION_TABLE)
ResolveEnd(g, data, start, end, r1) ==
    RouteFrom(g, start, end, r1.output,
              station_name_to_id_v3(data, r1.tmp_names, end))

find_shortest_route(g, data, cache, start, end) ==
    ResolveEnd(g, data, start, end,
               station_name_to_id_v3(data, cache, start))

----------------------------------------------------------------------------
(* process_path (mtr_pathfinder.py) *)

\* route_name_list of the hop from u to v: the names of its parallel edges,
\* a list-valued name giving all its members
RouteNameList(g, u, v) ==
    UNION {Range(g.adj[<<u, v>>][k].name.names) :
             k \in 1..Len(g.adj[<<u, v>>])}

\* The edges of the hop whose name is the str route_name
NamedEdges(g, u, v, route_name) ==
    SelectSeq(g.adj[<<u, v>>],
              LAMBDA x : ~x.name.list /\ x.name.names[1] = route_name)

\* The edges of the hop whose name is a list that holds route_name
ListingEdges(g, u, v, route_name) ==
    SelectSeq(g.adj[<<u, v>>],
              LAMBDA x : x.name.list /\ route_name \in Range(x.name.names))

\* original[(route_name, station_1, station_2)] is read and is not there
MissingOriginal(g, path, orig) ==
    \E i \in 1..(Len(path) - 1) :
       \E route_name \in RouteNameList(g, path[i], path[i + 1]) :
          /\ NamedEdges(g, path[i], path[i + 1], route_name) = <<>>
          /\ <<route_name, path[i], path[i + 1]>> \notin DOMAIN orig

\* The tuple r of one route of one hop: duration is the weight of the edge
\* of that name, or for a member of a list-valued name the entry of the
\* global `original`; sep_waiting is the entry of the global `intervals`
RouteTime(g, u, v, route_name, orig, iv) ==
    [route |-> route_name, station_1 |-> u, station_2 |-> v,
     duration |-> IF NamedEdges(g, u, v, route_name) # <<>>
                  THEN NamedEdges(g, u, v, route_name)[1].weight
                  ELSE orig[<<route_name, u, v>>],
     waiting |-> IF NamedEdges(g, u, v, route_name) # <<>>
                 THEN NamedEdges(g, u, v, route_name)[1].waiting
                 ELSE ListingEdges(g, u, v, route_name)[1].waiting,
     sep_waiting |-> IF route_name.text \in DOMAIN iv
                     THEN iv[route_name.text] ELSE None]

\* waiting_time: `waiting_time += waiting` runs for every edge v of
\* G[station_1][station_2], for every hop of the path
RECURSIVE WaitingSum(_, _, _)
WaitingSum(g, path, i) ==
    IF i >= Len(path) THEN 0
    ELSE SumSeq([k \in 1..Len(g.adj[<<path[i], path[i + 1]>>]) |->
                   g.adj[<<path[i], path[i + 1]>>][k].waiting])
         + WaitingSum(g, path, i + 1)

\* what process_path returns second to fourth: shortest_distance,
\* waiting_time, shortest_distance - waiting_time
PathTimes(g, path, shortest_distance) ==
    [total |-> shortest_distance,
     waiting_time |-> WaitingSum(g, path, 1),
     riding_time |-> shortest_distance - WaitingSum(g, path, 1)]

\* every_route_time: for every hop of the path the tuples of its routes
\* (their order within a hop is left out)
process_path(g, path, orig, iv) ==
    [i \in 1..(Len(path) - 1) |->
       {RouteTime(g, path[i], path[i + 1], route_name, orig, iv) :
          route_name \in RouteNameList(g, path[i], path[i + 1])}]

----------------------------------------------------------------------------
(* Specification SpecGraph: main() of mtr_pathfinder.py on a small network *)

GStop(id) == <<id, "1">>

GRoute(name, shape, ticks) ==
    [name |-> name, type |-> "train_normal",
     stations |-> [i \in 1..Len(shape) |-> GStop(shape[i])],
     durations |-> [i \in 1..(Len(shape) - 1) |-> ticks]]

\* Station 1 is at x = 0; stations 2 and 3 at these x (all at z = 0)
SecondX == {0, 45, 450}
ThirdX == {90, 900}

ConnectionChoices ==
    {NoConnections,
     [NoConnections EXCEPT ![1] = <<2>>, ![2] = <<1>>],
     [NoConnections EXCEPT ![2] = <<3>>, ![3] = <<2>>]}

\* R1 runs 1-2-3 or 1-2 with hops of 100 s or 200 s; R2, if there is one,
\* runs 1-2 in 110 s or 200 s
FirstRoutes == {GRoute("R1", shape, ticks) :
                  shape \in {<<1, 2, 3>>, <<1, 2>>}, ticks \in {2000, 4000}}
SecondRoutes == {<<>>} \cup {<<GRoute("R2", <<1, 2>>, ticks)>> :
                               ticks \in {2200, 4000}}

IntervalChoices == {("R1" :> 200) @@ ("R2" :> 300), ("R1" :> 200)}

GData ==
    {[x |-> <<0, x2, x3>>, connections |-> c, routes |-> <<r1>> \o r2,
      intervals |-> iv] :
        x2 \in SecondX, x3 \in ThirdX, c \in ConnectionChoices,
        r1 \in FirstRoutes, r2 \in SecondRoutes, iv \in IntervalChoices}

AdditionChoices ==
    {[TRANSFER_ADDITION |-> <<>>, WILD_ADDITION |-> <<>>],
     [TRANSFER_ADDITION |-> (StationName(1) :> <<StationName(3)>>),
      WILD_ADDITION |-> <<>>],
     [TRANSFER_ADDITION |-> <<>>,
      WILD_ADDITION |-> (StationName(2) :> <<StationName(1)>>)]}

GArgs ==
    {[route_type |-> rt, CALCULATE_WALKING_WILD |-> w, AVOID_STATIONS |-> av,
      TRANSFER_ADDITION |-> ad.TRANSFER_ADDITION,
      WILD_ADDITION |-> ad.WILD_ADDITION, MAX_WILD_BLOCKS |-> 500,
      IGNORED_LINES |-> <<>>, original_ignored_lines |-> <<>>,
      CALCULATE_HIGH_SPEED |-> TRUE, cache |-> TRUE] :
        rt \in {"IN_THEORY", "WAITING"}, w \in BOOLEAN,
        av \in {<<>>, <<<<"1">>>>}, ad \in AdditionChoices}

GStartNames == {<<"a", "b">>, <<>>}
GEndNames == {<<"e">>, <<"c">>}

InitGraph ==
    /\ g_data \in GData
    /\ g_args \in GArgs
    /\ tmp_names = <<>>
    /\ intervals = <<>>
    /\ original = <<>>
    /\ g_avoid_ids = {}
    /\ edges_dict = <<>>
    /\ edges_attr_dict = <<>>
    /\ waiting_walking_dict = <<>>
    /\ G = EmptyGraph
    /\ g_pc = "call"
    /\ g_out = "running"
    /\ g_legs = <<>>
    /\ g_times = <<>>
    /\ g_filename = NoFile
    /\ cache_files = <<>>
    /\ default_ignored = <<>>
    /\ g_log = <<>>
    /\ g_seen = {}
    /\ CSAIdle
    /\ RTIdle
    /\ IntervalIdle
    /\ ResolveIdle

\* g_log with the way the running call came by its graph
Logged(how) ==
    IF g_log = <<>> THEN g_log ELSE [g_log EXCEPT ![Len(g_log)].how = how]

\* create_graph up to the cache lookup: the interval file is loaded, the
\* file name is made, and if a file of that name exists its pickle is
\* loaded and returned.  pickle.load raises on a file that is not a whole
\* pickle, and nothing catches it.
Enter ==
    /\ g_pc = "call"
    /\ intervals' = g_data.intervals
    /\ g_filename' = CacheFileName(g_args)
    /\ IF g_filename' # NoFile /\ g_filename' \in DOMAIN cache_files
       THEN IF cache_files[g_filename'].complete
            THEN /\ G' = cache_files[g_filename'].G
                 /\ original' = cache_files[g_filename'].original
                 /\ g_pc' = "built"
                 /\ g_log' = Logged("cache")
                 /\ UNCHANGED g_out
            ELSE /\ g_pc' = "raised"
                 /\ g_out' = "EOFError"
                 /\ g_log' = Logged("raised")
                 /\ UNCHANGED <<G, original>>
       ELSE /\ g_pc' = "start"
            /\ g_log' = Logged("built")
            /\ UNCHANGED <<G, original, g_out>>
    /\ UNCHANGED <<g_data, g_args, tmp_names, g_avoid_ids, edges_dict,
                   edges_attr_dict, waiting_walking_dict, g_legs, g_times,
                   cache_files, default_ignored, g_seen>>

\* Step A: the avoided names are resolved, G and the dicts are made anew,
\* `original` among them, and the walk records are collected
StepA ==
    /\ g_pc = "start"
    /\ \E r \in {ResolveAll(g_data, tmp_names, g_args.AVOID_STATIONS)} :
          /\ tmp_names' = r.tmp_names
          /\ g_avoid_ids' = r.ids
          /\ edges_attr_dict' = WalkDict(g_data, g_args, r.ids)
          /\ waiting_walking_dict' = LastWalks(edges_attr_dict')
    /\ edges_dict' = <<>>
    /\ original' = <<>>
    /\ G' = EmptyGraph
    /\ g_pc' = "walks"
    /\ UNCHANGED <<g_data, g_args, g_out, g_legs, g_times, intervals,
                   sessionVars>>

\* Step B: the ride records of every kept route
StepB ==
    /\ g_pc = "walks"
    /\ IF g_args.route_type = "WAITING"
       THEN /\ edges_dict' = RideDict(g_data, g_args, intervals, g_avoid_ids)
            /\ original' = OriginalOf(edges_dict')
            /\ intervals' = CableCarIntervals(g_data, g_args, intervals)
            /\ UNCHANGED edges_attr_dict
       ELSE /\ edges_attr_dict' = TheoryDict(g_data, g_args, intervals,
                                             g_avoid_ids, edges_attr_dict)
            /\ UNCHANGED <<edges_dict, original, intervals>>
    /\ g_pc' = "rides"
    /\ UNCHANGED <<g_data, g_args, tmp_names, g_avoid_ids,
                   waiting_walking_dict, G, g_out, g_legs,
                   g_times, sessionVars>>

\* Step C: in WAITING mode every pair of edges_dict gets its one combined
\* record; then the records of every pair are admitted as edges
StepC ==
    /\ g_pc = "rides"
    /\ edges_attr_dict' =
          IF g_args.route_type = "WAITING"
          THEN CombinedDict(edges_dict, waiting_walking_dict, edges_attr_dict)
          ELSE edges_attr_dict
    /\ original' =
          IF g_args.route_type = "WAITING"
          THEN WalkOriginal(edges_dict, waiting_walking_dict, original)
          ELSE original
    /\ G' = AdmitDict(G, edges_attr_dict')
    /\ g_pc' = "admitted"
    /\ UNCHANGED <<g_data, g_args, tmp_names, intervals, g_avoid_ids,
                   edges_dict, waiting_walking_dict, g_out, g_legs, g_times,
                   sessionVars>>

\* Step D: the wild walks, if CALCULATE_WALKING_WILD
StepD ==
    /\ g_pc = "admitted"
    /\ IF g_args.CALCULATE_WALKING_WILD
       THEN /\ G' = WildGraph(g_data, g_args, g_avoid_ids,
                              waiting_walking_dict, G)
            /\ edges_attr_dict' =
                  [p \in {q \in Pairs :
                            WildAdded(g_data, g_args, g_avoid_ids,
                                      waiting_walking_dict, G, q[1], q[2])} |->
                     <<Rec(G'.adj[p][Len(G'.adj[p])].name,
                           G'.adj[p][Len(G'.adj[p])].weight, 0)>>]
       ELSE UNCHANGED <<G, edges_attr_dict>>
    /\ g_pc' = "dump"
    /\ UNCHANGED <<g_data, g_args, tmp_names, intervals, original,
                   g_avoid_ids, edges_dict, waiting_walking_dict, g_out,
                   g_legs, g_times, sessionVars>>

\* The end of create_graph: if there is a file name and no file of that
\* name, open(filename, 'wb') creates the file, empty; else `return G`
OpenCache ==
    /\ g_pc = "dump"
    /\ IF g_filename # NoFile /\ g_filename \notin DOMAIN cache_files
       THEN /\ cache_files' = (g_filename :> PartFile) @@ cache_files
            /\ g_pc' = "dumping"
       ELSE /\ g_pc' = "built"
            /\ UNCHANGED cache_files
    /\ UNCHANGED <<g_data, g_args, tmp_names, intervals, original,
                   g_avoid_ids, edges_dict, edges_attr_dict,
                   waiting_walking_dict, G, g_out, g_legs, g_times, g_filename,
                   default_ignored, g_log, g_seen>>

\* pickle.dump((G, original), f) and the end of the `with`; `return G`
Dump ==
    /\ g_pc = "dumping"
    /\ cache_files' = (g_filename :> Pickled(G, original)) @@ cache_files
    /\ g_pc' = "built"
    /\ UNCHANGED <<g_data, g_args, tmp_names, intervals, original,
                   g_avoid_ids, edges_dict, edges_attr_dict,
                   waiting_walking_dict, G, g_out, g_legs, g_times, g_filename,
                   default_ignored, g_log, g_seen>>

\* main(): find_shortest_route(G, station1, station2, ...), which ends in
\* process_path.  A KeyError of process_path leaves main.
Query ==
    /\ g_pc = "built"
    /\ \E start \in GStartNames : \E end \in GEndNames :
          \E r \in {find_shortest_route(G, g_data, tmp_names, start, end)} :
             \E o \in r.results :
                /\ tmp_names' = r.tmp_names
                /\ IF o.outcome = "path"
                      /\ MissingOriginal(G, o.shortest_path, original)
                   THEN /\ g_out' = "KeyError"
                        /\ g_legs' = <<>>
                        /\ g_times' = <<>>
                        /\ g_pc' = "raised"
                   ELSE /\ g_out' = o
                        /\ g_legs' = IF o.outcome = "path"
                                     THEN process_path(G, o.shortest_path,
                                                       original, intervals)
                                     ELSE <<>>
                        /\ g_times' = IF o.outcome = "path"
                                      THEN PathTimes(G, o.shortest_path,
                                                     o.shortest_distance)
                                      ELSE <<>>
                        /\ g_pc' = "done"
    /\ UNCHANGED <<g_data, g_args, intervals, original, g_avoid_ids,
                   edges_dict, edges_attr_dict, waiting_walking_dict, G,
                   sessionVars>>

GraphStep ==
    Enter \/ StepA \/ StepB \/ StepC \/ StepD \/ OpenCache \/ Dump \/ Query

NextGraph == GraphStep /\ UNCHANGED <<csaVars, rtVars, intervalVars, resolveVars>>

SpecGraph == InitGraph /\ [][NextGraph]_vars

----------------------------------------------------------------------------
(* Specification SpecPath: find_shortest_route on any small multigraph *)

\* at most this many edges in the multigraph
MaxEdges == 4

\* the weights an edge may have
EdgeWeights == {1, 2}

\* G.add_edge(u, v, weight=w, ...) for every <<u, v, w>> of calls, in order
RECURSIVE AddEdges(_, _)
AddEdges(g, calls) ==
    IF calls = <<>> THEN g
    ELSE LET c == Head(calls)
             e == Edge(c[3], NameStr(Label("R1", 0)), 0)
         IN AddEdges(
               WithEdges(g, [g.adj EXCEPT ![<<c[1], c[2]>>] = Append(@, e)]),
               Tail(calls))

PathData ==
    [x |-> <<0, 45, 90>>, connections |-> NoConnections, routes |-> <<>>,
     intervals |-> <<>>]

PathArgs ==
    [route_type |-> "IN_THEORY", CALCULATE_WALKING_WILD |-> FALSE,
     AVOID_STATIONS |-> <<>>, TRANSFER_ADDITION |-> <<>>,
     WILD_ADDITION |-> <<>>, MAX_WILD_BLOCKS |-> 500,
     IGNORED_LINES |-> <<>>, original_ignored_lines |-> <<>>,
     CALCULATE_HIGH_SPEED |-> TRUE, cache |-> TRUE]

InitPath ==
    /\ g_data = PathData
    /\ g_args = PathArgs
    /\ tmp_names = <<>>
    /\ intervals = <<>>
    /\ original = <<>>
    /\ g_avoid_ids = {}
    /\ edges_dict = <<>>
    /\ edges_attr_dict = <<>>
    /\ waiting_walking_dict = <<>>
    /\ \E n \in 0..MaxEdges :
          \E calls \in [1..n -> {c \in Stations \X Stations \X EdgeWeights :
                                   c[1] # c[2]}] :
             G = AddEdges(EmptyGraph, calls)
    /\ g_pc = "built"
    /\ g_out = "running"
    /\ g_legs = <<>>
    /\ g_times = <<>>
    /\ g_filename = NoFile
    /\ cache_files = <<>>
    /\ default_ignored = <<>>
    /\ g_log = <<>>
    /\ g_seen = {}
    /\ CSAIdle
    /\ RTIdle
    /\ IntervalIdle
    /\ ResolveIdle

NextPath == Query /\ UNCHANGED <<csaVars, rtVars, intervalVars, resolveVars>>

SpecPath == InitPath /\ [][NextPath]_vars

----------------------------------------------------------------------------
(* Specification SpecSession: main() of mtr_pathfinder.py called again and *)
(* again, by processes that follow one another and share the directory     *)
(* mtr_pathfinder_temp                                                     *)

\* main() calls in all
MaxCalls == 2

\* R1 runs 1-2-3-1-3: from 1 to 3 by way of 2 in 100 s, and later directly
\* in 200 s.  R2 runs 1-2.  The third route bears a spare name; the fourth
\* has one duration more than it has hops.
SessionRoutes ==
    <<[name |-> "R1", type |-> "train_normal",
       stations |-> <<GStop(1), GStop(2), GStop(3), GStop(1), GStop(3)>>,
       durations |-> <<1000, 1000, 1000, 4000>>],
      GRoute("R2", <<1, 2>>, 2200),
      GRoute("Dummy", <<2, 3>>, 2000),
      [name |-> "R4", type |-> "train_normal",
       stations |-> <<GStop(3), GStop(1)>>,
       durations |-> <<2000, 2000>>]>>

SessionData ==
    [x |-> <<0, 45, 90>>, connections |-> NoConnections,
     routes |-> SessionRoutes,
     intervals |-> ("R1" :> 200) @@ ("R2" :> 300) @@ ("Dummy" :> 200)
                      @@ ("R4" :> 200)]

\* main()'s defaults, but for CALCULATE_WALKING_WILD, which is part of the
\* cache file's name
DefaultArgs ==
    [route_type |-> "WAITING", CALCULATE_WALKING_WILD |-> TRUE,
     AVOID_STATIONS |-> <<>>, TRANSFER_ADDITION |-> <<>>,
     WILD_ADDITION |-> <<>>, MAX_WILD_BLOCKS |-> 1500,
     IGNORED_LINES |-> <<>>, original_ignored_lines |-> <<>>,
     CALCULATE_HIGH_SPEED |-> TRUE, cache |-> TRUE]

\* The argument lists a caller passes.  `given` tells whether the caller
\* passes IGNORED_LINES (an empty list of its own) or leaves it out.
SessionArgs ==
    {[args |-> DefaultArgs, given |-> TRUE],
     [args |-> [DefaultArgs EXCEPT !.MAX_WILD_BLOCKS = 60], given |-> TRUE],
     [args |-> [DefaultArgs EXCEPT !.AVOID_STATIONS = <<<<"1">>>>,
                                   !.CALCULATE_WALKING_WILD = FALSE],
      given |-> TRUE],
     [args |-> [DefaultArgs EXCEPT !.route_type = "IN_THEORY"],
      given |-> TRUE],
     [args |-> [DefaultArgs EXCEPT !.original_ignored_lines = <<"R2">>],
      given |-> TRUE],
     [args |-> [DefaultArgs EXCEPT !.original_ignored_lines = <<"R2">>],
      given |-> FALSE]}

\* A process just started: the module globals and main()'s default list
\* are what the module's text makes them
FreshProcess ==
    /\ tmp_names = <<>>
    /\ intervals = <<>>
    /\ original = <<>>
    /\ default_ignored = <<>>
    /\ g_args = DefaultArgs
    /\ g_avoid_ids = {}
    /\ edges_dict = <<>>
    /\ edges_attr_dict = <<>>
    /\ waiting_walking_dict = <<>>
    /\ G = EmptyGraph
    /\ g_pc = "idle"
    /\ g_out = "idle"
    /\ g_legs = <<>>
    /\ g_times = <<>>
    /\ g_filename = NoFile

InitSession ==
    /\ g_data = SessionData
    /\ FreshProcess
    /\ cache_files = <<>>
    /\ g_log = <<>>
    /\ g_seen = {}
    /\ CSAIdle
    /\ RTIdle
    /\ IntervalIdle
    /\ ResolveIdle

\* main() from its call to the call of create_graph.  If the caller leaves
\* IGNORED_LINES out, the parameter is the one list object made when main
\* was defined, and `IGNORED_LINES += ORIGINAL_IGNORED_LINES` extends that
\* object.
Call ==
    /\ g_pc \in {"idle", "done", "raised"}
    /\ Len(g_log) < MaxCalls
    /\ \E c \in SessionArgs :
          \E ignored \in {(IF c.given THEN c.args.IGNORED_LINES
                            ELSE default_ignored)
                              \o c.args.original_ignored_lines} :
             /\ g_args' = [c.args EXCEPT !.IGNORED_LINES = ignored]
             /\ default_ignored' =
                   IF c.given THEN default_ignored ELSE ignored
             /\ g_log' = Append(g_log, [args |-> c.args, given |-> c.given,
                                        how |-> "pending", live |-> TRUE])
    /\ g_pc' = "call"
    /\ g_out' = "running"
    /\ g_legs' = <<>>
    /\ g_times' = <<>>
    /\ g_avoid_ids' = {}
    /\ edges_dict' = <<>>
    /\ edges_attr_dict' = <<>>
    /\ waiting_walking_dict' = <<>>
    /\ G' = EmptyGraph
    /\ g_filename' = NoFile
    /\ UNCHANGED <<g_data, tmp_names, intervals, original, cache_files,
                   g_seen>>

\* The process ends, after a call or killed while it writes the cache
\* file, and another one starts
Restart ==
    /\ g_pc \in {"dumping", "done", "raised"}
    /\ tmp_names' = <<>>
    /\ intervals' = <<>>
    /\ original' = <<>>
    /\ default_ignored' = <<>>
    /\ g_args' = DefaultArgs
    /\ g_avoid_ids' = {}
    /\ edges_dict' = <<>>
    /\ edges_attr_dict' = <<>>
    /\ waiting_walking_dict' = <<>>
    /\ G' = EmptyGraph
    /\ g_pc' = "idle"
    /\ g_out' = "idle"
    /\ g_legs' = <<>>
    /\ g_times' = <<>>
    /\ g_filename' = NoFile
    /\ g_log' = [k \in 1..Len(g_log) |-> [g_log[k] EXCEPT !.live = FALSE]]
    /\ UNCHANGED <<g_data, cache_files, g_seen>>

\* Another process with the same file name runs the cache lookup of
\* create_graph: os.path.exists(filename), then pickle.load
Reader ==
    /\ \E f \in DOMAIN cache_files :
          g_seen' = g_seen \cup {IF cache_files[f].complete
                                 THEN "graph" ELSE "EOFError"}
    /\ g_seen' # g_seen
    /\ UNCHANGED <<g_data, g_args, tmp_names, intervals, original,
                   g_avoid_ids, edges_dict, edges_attr_dict,
                   waiting_walking_dict, G, g_pc, g_out, g_legs, g_times,
                   g_filename, cache_files, default_ignored, g_log>>

\* What create_graph, run from its first line to its return by another
\* query of this process, leaves in the module globals and in the cache
\* directory
OtherGraph(args, file) ==
    IF file # NoFile /\ file \in DOMAIN cache_files
    THEN [original |-> cache_files[file].original,
          tmp_names |-> tmp_names, cache_files |-> cache_files]
    ELSE [original |->
             CreateGraphBody(g_data, args, tmp_names).original,
          tmp_names |->
             ResolveAll(g_data, tmp_names, args.AVOID_STATIONS).tmp_names,
          cache_files |->
             IF file = NoFile THEN cache_files
             ELSE (file :> Pickled(
                      CreateGraphBody(g_data, args, tmp_names).G,
                      CreateGraphBody(g_data, args, tmp_names).original))
                  @@ cache_files]

\* Another main() call of this process, one that passes its own lists, runs
\* create_graph while this query is between its own create_graph and its
\* find_shortest_route
OtherQuery ==
    /\ g_pc = "built"
    /\ Len(g_log) < MaxCalls
    /\ \E c \in {x \in SessionArgs : x.given} :
          \E a \in {[c.args EXCEPT !.IGNORED_LINES =
                                      @ \o c.args.original_ignored_lines]} :
             \E r \in {OtherGraph(a, CacheFileName(a))} :
                /\ ~(CacheFileName(a) \in DOMAIN cache_files
                       /\ ~cache_files[CacheFileName(a)].complete)
                /\ original' = r.original
                /\ tmp_names' = r.tmp_names
                /\ cache_files' = r.cache_files
                /\ intervals' = IF a.route_type = "WAITING"
                                   /\ CacheFileName(a) \notin DOMAIN cache_files
                                THEN CableCarIntervals(g_data, a,
                                                       g_data.intervals)
                                ELSE g_data.intervals
                /\ g_log' = Append(g_log,
                      [args |-> c.args, given |-> TRUE,
                       how |-> IF CacheFileName(a) \in DOMAIN cache_files
                               THEN "cache" ELSE "built",
                       live |-> TRUE])
    /\ UNCHANGED <<g_data, g_args, g_avoid_ids, edges_dict, edges_attr_dict,
                   waiting_walking_dict, G, g_pc, g_out, g_legs,
                   g_times, g_filename,
                   default_ignored, g_seen>>

SessionStep == Call \/ GraphStep \/ Restart \/ Reader \/ OtherQuery

NextSession == SessionStep /\ UNCHANGED <<csaVars, rtVars, intervalVars, resolveVars>>

SpecSession == InitSession /\ [][NextSession]_vars

----------------------------------------------------------------------------
(* Specification SpecCable: the calls of SpecSession on a network with a   *)
(* cable car                                                               *)

\* R1 runs 1-2, the cable car R2 runs 2-3, 100 s each.  The stations are
\* too far apart to walk, and the interval file has no entry for R2.
CableRoutes ==
    <<GRoute("R1", <<1, 2>>, 2000),
      [GRoute("R2", <<2, 3>>, 2000) EXCEPT !.type = "cable_car_normal"]>>

CableData ==
    [x |-> <<0, 4500, 9000>>, connections |-> NoConnections,
     routes |-> CableRoutes, intervals |-> ("R1" :> 200)]

InitCable ==
    /\ g_data = CableData
    /\ FreshProcess
    /\ cache_files = <<>>
    /\ g_log = <<>>
    /\ g_seen = {}
    /\ CSAIdle
    /\ RTIdle
    /\ IntervalIdle
    /\ ResolveIdle

SpecCable == InitCable /\ [][NextSession]_vars

----------------------------------------------------------------------------
(* gen_route_interval (mtr_pathfinder.py), MTR_VER = 3                     *)
(*                                                                         *)
(* An arrival is [name, arrival], the arrival in milliseconds as the       *)
(* server gives it.  The means are the source's floats, kept exact: one    *)
(* unit is 1/IntervalScale of a second, so that a whole second times 1.25  *)
(* and a mean of up to three such values are whole numbers.                *)

IntervalScale == 120

\* round(n / 10) * 10 if it is positive, else 10; round() goes to the even
\* neighbour on a tie.  n is in units, the result in whole seconds.
round_ten(n) ==
    LET ten == 10 * IntervalScale
        q   == n \div ten
        r   == n % ten
        ans == 10 * (IF 2 * r < ten THEN q
                     ELSE IF 2 * r > ten THEN q + 1
                     ELSE IF q % 2 = 0 THEN q ELSE q + 1)
    IN  IF ans > 0 THEN ans ELSE 10

\* arrivals[:-1]
ButLast(q) == SubSeq(q, 1, Len(q) - 1)

\* dep_dict_per_station[x] of one response <<t, arrivals>>
DepPerStation(resp, x) ==
    LET sel == SelectSeq(ButLast(resp[2]), LAMBDA a : a.name = x)
    IN  [i \in 1..Len(sel) |-> sel[i].arrival]

\* the keys of dep_dict_per_station
StationRoutes(resp) == {a.name : a \in Range(ButLast(resp[2]))}

\* (item[0] / 1000 - t) * 1.25
SingleDep(resp, x) ==
    (((DepPerStation(resp, x)[1] * IntervalScale) \div 1000
        - resp[1] * IntervalScale) * 5) \div 4

\* sum(dep_s_list) / len(dep_s_list)
MeanDep(resp, x) ==
    LET item == DepPerStation(resp, x)
        dep_s_list == [y \in 1..(Len(item) - 1) |->
                          ((item[y + 1] - item[y]) * IntervalScale) \div 1000]
    IN  SumSeq(dep_s_list) \div Len(dep_s_list)

\* dep_dict_per_route[x] before the singles are filled in: one mean for
\* each response with two arrivals of x or more, in the order of the list
DepPerRoute(list, x) ==
    LET sel == SelectSeq(list, LAMBDA e : Len(DepPerStation(e[2], x)) >= 2)
    IN  [i \in 1..Len(sel) |-> MeanDep(sel[i][2], x)]

\* dep_dict_per_route_[x]: the first response with one arrival of x
DepPerRouteSingle(list, x) ==
    LET sel == SelectSeq(list, LAMBDA e : Len(DepPerStation(e[2], x)) = 1)
    IN  IF sel = <<>> THEN <<>> ELSE <<SingleDep(sel[1][2], x)>>

\* freq_dict of the responses taken off the queue
FreqDict(list) ==
    [x \in UNION {StationRoutes(e[2]) : e \in Range(list)} |->
        LET deps == IF DepPerRoute(list, x) # <<>>
                    THEN DepPerRoute(list, x)
                    ELSE DepPerRouteSingle(list, x)
        IN  round_ten(SumSeq(deps) \div Len(deps))]

----------------------------------------------------------------------------
(* Specification SpecInterval: gen_route_interval asking every station of  *)
(* a small network, each request answered or failing                       *)

Arrival(n, ms) == [name |-> n, arrival |-> ms]

\* what a station's /arrivals may answer
IntervalAnswers ==
    { <<>>,
      <<Arrival("A", 30000), Arrival("A", 90000), Arrival("B", 50000)>>,
      <<Arrival("A", 40000), Arrival("B", 20000)>>,
      <<Arrival("B", 10000), Arrival("B", 40000), Arrival("B", 100000),
        Arrival("A", 0)>> }

\* time() when an answer is put on the queue, in seconds
IntervalClock == {0, 8}

InitInterval ==
    /\ IntervalIdle
    /\ ResolveIdle
    /\ CSAIdle
    /\ RTIdle
    /\ GraphIdle

\* semaphore = BoundedSemaphore(25); the 25 is scaled down to the number
\* of stations of the model
SemaphoreValue == 2

CanAcquireAlways(inflight) == TRUE

\* with semaphore: the thread goes on when the counter is above zero
CanAcquire(inflight) == Cardinality(inflight) < SemaphoreValue

\* one Thread per station of data[0]['stations']
StartThreads ==
    /\ iv_pc = "idle"
    /\ iv_threads' = 1..NumStations
    /\ iv_pc' = "fetching"
    /\ UNCHANGED <<iv_inflight, ROUTE_INTERVAL_DATA, interval_data_list,
                   freq_dict, interval_file>>

\* fetch_interval_data: a thread enters `with semaphore:`
Acquire ==
    /\ iv_pc = "fetching"
    /\ CanAcquire(iv_inflight)
    /\ \E station_id \in iv_threads \ iv_inflight :
          iv_inflight' = iv_inflight \cup {station_id}
    /\ UNCHANGED <<iv_threads, ROUTE_INTERVAL_DATA, interval_data_list,
                   freq_dict, interval_file, iv_pc>>

\* fetch_interval_data: the else branch of the try, and the end of the
\* with block
FetchAnswered ==
    /\ iv_pc = "fetching"
    /\ \E station_id \in iv_inflight, t \in IntervalClock,
          data \in IntervalAnswers :
          /\ ROUTE_INTERVAL_DATA' =
                 Append(ROUTE_INTERVAL_DATA, <<station_id, <<t, data>>>>)
          /\ iv_threads' = iv_threads \ {station_id}
          /\ iv_inflight' = iv_inflight \ {station_id}
    /\ UNCHANGED <<interval_data_list, freq_dict, interval_file, iv_pc>>

\* fetch_interval_data: except Exception: pass, and the end of the with
\* block
FetchFailed ==
    /\ iv_pc = "fetching"
    /\ \E station_id \in iv_inflight :
          /\ iv_threads' = iv_threads \ {station_id}
          /\ iv_inflight' = iv_inflight \ {station_id}
    /\ UNCHANGED <<ROUTE_INTERVAL_DATA, interval_data_list, freq_dict,
                   interval_file, iv_pc>>

\* every thread joined: the queue is emptied into interval_data_list and
\* reduced to freq_dict
Reduce ==
    /\ iv_pc = "fetching"
    /\ iv_threads = {}
    /\ interval_data_list' = ROUTE_INTERVAL_DATA
    /\ ROUTE_INTERVAL_DATA' = <<>>
    /\ freq_dict' = FreqDict(ROUTE_INTERVAL_DATA)
    /\ iv_pc' = "prompt"
    /\ UNCHANGED <<iv_threads, iv_inflight, interval_file>>

\* y = input(...).lower(); if y == 'y': json.dump(freq_dict, f)
Answer ==
    /\ iv_pc = "prompt"
    /\ \E y \in {"y", "n"} :
          interval_file' = IF y = "y" THEN Append(interval_file, freq_dict)
                                      ELSE interval_file
    /\ iv_pc' = "returned"
    /\ UNCHANGED <<iv_threads, iv_inflight, ROUTE_INTERVAL_DATA,
                   interval_data_list, freq_dict>>

IntervalStep ==
    StartThreads \/ Acquire \/ FetchAnswered \/ FetchFailed \/ Reduce \/ Answer

NextInterval == IntervalStep /\ UNCHANGED <<csaVars, rtVars, graphVars, resolveVars>>

SpecInterval == InitInterval /\ [][NextInterval]_vars

----------------------------------------------------------------------------
(* Specification SpecResolve: station_name_to_id on any small station      *)
(* dict, and again on the name of the station it found                     *)

\* names given in all
MaxResolves == 2

\* station names: with and without a second language, one with two
\* spellings of the second, one in simplified and in traditional characters
NamePool ==
    { <<"x">>, <<"x", "|", "y">>, <<"z", "|", "y", "/", "x">>,
      <<"1", "|", "y">>, <<"2", "|", "y">> }

StationDicts == UNION {[1..n -> NamePool] : n \in 2..NumStations}

AliasTables == { {}, {<< <<"q">>, <<"x">> >>}, {<< <<"x">>, <<"y">> >>} }

\* what a user may type
ResolveInputs ==
    { <<"X">>, <<"y">>, <<"z">>, <<"q">>, <<"x", "z">>, <<"1", "|", "y">> }

InitResolve ==
    /\ rs_names \in StationDicts
    /\ rs_table \in AliasTables
    /\ rs_cache = <<>>
    /\ rs_id = None
    /\ rs_back = None
    /\ rs_calls = 0
    /\ rs_pc = "idle"
    /\ CSAIdle
    /\ RTIdle
    /\ GraphIdle
    /\ IntervalIdle

\* station_name_to_id(data, sta, STATION_TABLE) on what the user typed
Resolve ==
    /\ rs_pc \in {"idle", "back"}
    /\ rs_calls < MaxResolves
    /\ \E sta \in ResolveInputs :
          \E r \in {station_name_to_id(rs_names, rs_table, rs_cache, sta)} :
             /\ rs_id' = r.output
             /\ rs_cache' = r.tmp_names
             /\ rs_pc' = IF r.output = None THEN "idle" ELSE "resolved"
    /\ rs_back' = None
    /\ rs_calls' = rs_calls + 1
    /\ UNCHANGED <<rs_names, rs_table>>

\* station_name_to_id(data, data[0]['stations'][id]['name'], STATION_TABLE)
ResolveBack ==
    /\ rs_pc = "resolved"
    /\ \E r \in {station_name_to_id(rs_names, rs_table, rs_cache,
                                     rs_names[rs_id])} :
          /\ rs_back' = r.output
          /\ rs_cache' = r.tmp_names
    /\ rs_pc' = "back"
    /\ UNCHANGED <<rs_names, rs_table, rs_id, rs_calls>>

ResolveStep == Resolve \/ ResolveBack

NextResolve ==
    ResolveStep /\ UNCHANGED <<csaVars, rtVars, graphVars, intervalVars>>

SpecResolve == InitResolve /\ [][NextResolve]_vars

----------------------------------------------------------------------------
(* Claims about the THEORY / WAITING query *)

\* The stations the names of the queries stand for
NamedStation(name) ==
    CASE name = <<"a", "b">> -> 1
      [] name = <<"c">> -> 1
      [] name = <<"1">> -> 2
      [] name = <<"e">> -> 3
      [] OTHER -> None

Weights(edges) == {edges[k].weight : k \in 1..Len(edges)}

\* The sum over the hops of a node sequence of the cheapest parallel edge
RECURSIVE PathSum(_, _)
PathSum(g, q) ==
    IF Len(q) < 2 THEN 0
    ELSE SetMin(Weights(g.adj[<<q[1], q[2]>>])) + PathSum(g, Tail(q))

\* Every path of the multigraph from s to t that visits no node twice
AllPaths(g, s, t) ==
    {q \in SimpleSeqs(Stations) :
       /\ q[1] = s
       /\ q[Len(q)] = t
       /\ \A i \in 1..(Len(q) - 1) : g.adj[<<q[i], q[i + 1]>>] # <<>>}

\* C2: for distinct resolved stations joined by a path, the returned total
\* weight is the least path sum (cheapest parallel edge per hop) and the
\* returned station sequence has the fewest nodes among the paths of that
\* weight; without a path the result is not-found.
C2_ShortestRoute ==
    (g_pc = "done"
       /\ NamedStation(g_out.station1) # None
       /\ NamedStation(g_out.station2) # None
       /\ NamedStation(g_out.station1) # NamedStation(g_out.station2)) =>
        LET paths == AllPaths(G, NamedStation(g_out.station1),
                              NamedStation(g_out.station2))
            best == SetMin({PathSum(G, q) : q \in paths})
        IN IF paths = {} THEN g_out.outcome = "False"
           ELSE /\ g_out.outcome = "path"
                /\ g_out.shortest_distance = best
                /\ g_out.shortest_path \in paths
                /\ PathSum(G, g_out.shortest_path) = best
                /\ \A q \in paths :
                      PathSum(G, q) = best =>
                         Len(g_out.shortest_path) <= Len(q)

\* C2 witness: the direct edge and the two-hop path tie, the two-hop path
\* only through a parallel edge that is not the first of its pair, and the
\* direct edge is returned
C2_Witness ==
    /\ g_pc = "done"
    /\ g_out.outcome = "path"
    /\ g_out.shortest_path = <<1, 3>>
    /\ Len(G.adj[<<1, 2>>]) = 2
    /\ G.adj[<<1, 2>>][1].weight > G.adj[<<1, 2>>][2].weight
    /\ G.adj[<<2, 3>>] # <<>>
    /\ PathSum(G, <<1, 2, 3>>) = PathSum(G, <<1, 3>>)

\* The stations a query is told to avoid
Avoided == {NamedStation(n) : n \in Range(g_args.AVOID_STATIONS)}

WalkTexts == {"Walk-transfer", "Walk-wild"}

Built == g_pc \in {"built", "done"}

\* Is there a route of the given name with a segment from u to v that
\* holds no avoided station?
CleanSegment(name, u, v) ==
    \E k \in 1..Len(g_data.routes) :
       LET r == g_data.routes[k] IN
       /\ r.name = name
       /\ \E i \in 1..Len(r.stations) : \E j \in (i + 1)..Len(r.stations) :
             /\ StopStation(r.stations[i]) = u
             /\ StopStation(r.stations[j]) = v
             /\ \A m \in i..j : StopStation(r.stations[m]) \notin Avoided

Listed(table, u, v) ==
    /\ StationName(u) \in DOMAIN table
    /\ StationName(v) \in Range(table[StationName(u)])

\* A connection of the network from u to v that touches no avoided station
CleanLink(u, v) ==
    /\ u # v
    /\ u \notin Avoided
    /\ v \notin Avoided
    /\ \/ v \in Range(g_data.connections[u])
       \/ Listed(g_args.TRANSFER_ADDITION, u, v)
       \/ g_args.CALCULATE_WALKING_WILD
       \/ \E k \in 1..Len(g_data.routes) :
             CleanSegment(g_data.routes[k].name, u, v)

CleanlyConnected(s, t) ==
    \/ CleanLink(s, t)
    \/ \E m \in Stations : CleanLink(s, m) /\ CleanLink(m, t)

\* C5: after create_graph with a non-empty avoid_stations list no edge of
\* any kind has an avoided endpoint, no ride edge comes from a route segment
\* holding an avoided station, and a query whose every connection runs
\* through an avoided station returns not-found.
C5_AvoidedStationsAbsent ==
    (g_pc \in {"admitted", "built", "done"}
       /\ g_args.AVOID_STATIONS # <<>>) =>
        /\ G.nodes \cap Avoided = {}
        /\ \A q \in Pairs :
              G.adj[q] # <<>> =>
                 /\ q[1] \notin Avoided
                 /\ q[2] \notin Avoided
                 /\ \A k \in 1..Len(G.adj[q]) :
                    \A n \in 1..Len(G.adj[q][k].name.names) :
                       LET label == G.adj[q][k].name.names[n]
                       IN label.text \notin WalkTexts =>
                             CleanSegment(label.text, q[1], q[2])
        /\ (g_pc = "done"
              /\ NamedStation(g_out.station1) # None
              /\ NamedStation(g_out.station2) # None
              /\ NamedStation(g_out.station1) # NamedStation(g_out.station2)) =>
               /\ g_out.outcome = "path" =>
                     Range(g_out.shortest_path) \cap Avoided = {}
               /\ ~CleanlyConnected(NamedStation(g_out.station1),
                                    NamedStation(g_out.station2)) =>
                     g_out.outcome = "False"

\* C5 witness: a route runs 1-2-3, station 2 is avoided, nothing else joins
\* 1 to 3, and the query from 1 to 3 has returned not-found
C5_Witness ==
    /\ g_pc = "done"
    /\ Avoided = {2}
    /\ \E k \in 1..Len(g_data.routes) :
          Len(g_data.routes[k].stations) = 3
    /\ NamedStation(g_out.station1) = 1
    /\ NamedStation(g_out.station2) = 3
    /\ ~CleanlyConnected(1, 3)
    /\ g_out.outcome = "False"
    /\ G.adj = EmptyGraph.adj

\* Every parallel edge of every pair is within 60 s of the pair's cheapest
Within60 ==
    \A q \in Pairs : \A k \in 1..Len(G.adj[q]) :
       G.adj[q][k].weight <= SetMin(Weights(G.adj[q])) + Sec(60)

\* C7 as stated: in the returned graph, in THEORY and in WAITING mode and
\* with wild walking too, every edge weighs at most the pair's least edge
\* weight plus 60 s.
C7_ParallelWithin60 == Built => Within60

\* C7, amended: the bound holds in both modes when wild walking is off.
C7_ParallelWithin60NoWild ==
    (Built /\ ~g_args.CALCULATE_WALKING_WILD) => Within60

\* C7 witness: without wild walking a pair keeps two edges of different
\* weights, and another pair has lost a record to the bound
C7_Witness ==
    /\ Built
    /\ ~g_args.CALCULATE_WALKING_WILD
    /\ \E q \in Pairs : Cardinality(Weights(G.adj[q])) = 2
    /\ \E q \in DOMAIN edges_attr_dict :
          /\ G.adj[q] # <<>>
          /\ Len(G.adj[q]) < Len(edges_attr_dict[q])

\* The weights of the records create_graph collects for a pair: the walks
\* of Step A with their walking time, the rides with their ride time and
\* (WAITING) the waiting of the pair's combined record
AdmittedRecords(q) ==
    LET walks == WalkRecords(g_data, g_args, g_avoid_ids, q[1], q[2])
        rides == RidesOf(g_data.routes, g_args, g_data.intervals,
                         g_avoid_ids, q[1], q[2])
    IN {<<walks[k].duration, walks[k].name>> : k \in 1..Len(walks)}
       \cup
       (IF g_args.route_type = "WAITING"
        THEN IF q \in DOMAIN edges_dict
             THEN LET c == Combine(edges_dict, waiting_walking_dict, q).rec
                  IN {<<c.duration + c.waiting, c.name>>}
             ELSE {}
        ELSE {<<rides[k].dur, NameStr(Label(rides[k].name, 0))>> :
                k \in 1..Len(rides)})

AdmittedWeights(q) == {x[1] : x \in AdmittedRecords(q)}

EdgeRecords(q) ==
    {<<G.adj[q][k].weight, G.adj[q][k].name>> : k \in 1..Len(G.adj[q])}

\* C8 as stated: every pair with an admitted record has an edge, its least
\* edge weight is the least admitted weight, and only records worse than
\* that by more than 60 s are pruned.
C8_MinimumKept ==
    Built =>
      \A q \in Pairs :
         AdmittedRecords(q) # {} =>
            /\ G.adj[q] # <<>>
            /\ SetMin(Weights(G.adj[q])) = SetMin(AdmittedWeights(q))
            /\ \A x \in AdmittedRecords(q) :
                  x[1] <= SetMin(AdmittedWeights(q)) + Sec(60) =>
                     x \in EdgeRecords(q)

\* C8, amended: in THEORY mode without wild walking the edges of a pair are
\* its records of positive weight within 60 s of the least admitted weight;
\* when that least weight is positive the pair has an edge and its least
\* edge weight is the least admitted weight.
C8_MinimumKeptTheory ==
    (Built /\ g_args.route_type = "IN_THEORY"
           /\ ~g_args.CALCULATE_WALKING_WILD) =>
      \A q \in Pairs :
         AdmittedRecords(q) # {} =>
            LET least == SetMin(AdmittedWeights(q)) IN
            /\ EdgeRecords(q) =
                  {x \in AdmittedRecords(q) :
                     x[1] > 0 /\ x[1] <= least + Sec(60)}
            /\ least > 0 =>
                  /\ G.adj[q] # <<>>
                  /\ SetMin(Weights(G.adj[q])) = least

\* C8 witness: THEORY mode without wild walking, a pair with two records
\* whose first is the worse by more than 60 s and is pruned
C8_Witness ==
    /\ Built
    /\ g_args.route_type = "IN_THEORY"
    /\ ~g_args.CALCULATE_WALKING_WILD
    /\ \E q \in DOMAIN edges_attr_dict :
          /\ Len(edges_attr_dict[q]) = 2
          /\ edges_attr_dict[q][1].duration
                > edges_attr_dict[q][2].duration + Sec(60)
          /\ Len(G.adj[q]) = 1
          /\ G.adj[q][1].weight = edges_attr_dict[q][2].duration

\* The combined edges of a pair: those named by a list of routes
CombinedEdges(q) == SelectSeq(G.adj[q], LAMBDA e : e.name.list)

\* A pair two different routes serve, once each, within 60 s of each other
\* and both with a positive interval
ServedByTwo(q) ==
    /\ q \in DOMAIN edges_dict
    /\ Len(edges_dict[q]) = 2
    /\ edges_dict[q][1].name # edges_dict[q][2].name
    /\ Abs(edges_dict[q][1].dur - edges_dict[q][2].dur) <= Sec(60)
    /\ edges_dict[q][1].wait > 0
    /\ edges_dict[q][2].wait > 0

\* lcm / (2 * (lcm / I1 + lcm / I2)), in units of 1/TimeScale s
TwoRouteWaiting(i1, i2) ==
    LET l == (i1 * i2) \div gcd(i1, i2)
    IN (l * TimeScale) \div (2 * ((l \div i1) + (l \div i2)))

\* C9: in WAITING mode a pair served by exactly two routes with ride times
\* within 60 s and intervals I1, I2 > 0 has a single combined edge whose
\* waiting is lcm / (2 (lcm/I1 + lcm/I2)) and whose weight is the smaller
\* ride time plus that waiting (100 s and 110 s, 200 and 300: 60 s, 160 s).
C9_TwoRouteWaiting ==
    (g_pc \in {"admitted", "built", "done"}
       /\ g_args.route_type = "WAITING") =>
      \A q \in Pairs :
         ServedByTwo(q) =>
            LET r1 == edges_dict[q][1]
                r2 == edges_dict[q][2]
                waiting == TwoRouteWaiting(r1.wait, r2.wait)
                combined == CombinedEdges(q)
            IN /\ Len(combined) <= 1
               /\ (g_pc = "admitted" \/ ~g_args.CALCULATE_WALKING_WILD) =>
                     Len(combined) = 1
               /\ \A k \in 1..Len(combined) :
                     /\ combined[k].waiting = waiting
                     /\ combined[k].weight = Min2(r1.dur, r2.dur) + waiting
                     /\ ({r1.dur, r2.dur} = {Sec(100), Sec(110)}
                           /\ {r1.wait, r2.wait} = {200, 300}) =>
                            /\ combined[k].waiting = Sec(60)
                            /\ combined[k].weight = Sec(160)

\* C9 witness: rides of 100 s and 110 s at intervals 200 and 300, and the
\* pair's combined edge in the returned graph
C9_Witness ==
    /\ Built
    /\ g_args.route_type = "WAITING"
    /\ ServedByTwo(<<1, 2>>)
    /\ {edges_dict[<<1, 2>>][1].dur, edges_dict[<<1, 2>>][2].dur}
          = {Sec(100), Sec(110)}
    /\ {edges_dict[<<1, 2>>][1].wait, edges_dict[<<1, 2>>][2].wait}
          = {200, 300}
    /\ Len(CombinedEdges(<<1, 2>>)) = 1
    /\ CombinedEdges(<<1, 2>>)[1].weight = Sec(160)

----------------------------------------------------------------------------
(* Claims about the cache of built graphs *)

\* create_graph returns from the cache file in this step
CacheHit == g_pc = "call" /\ g_pc' = "built"

\* C11: whenever create_graph returns the graph of an existing cache file,
\* that graph and the duration map `original` that comes with it are the
\* ones create_graph builds from the same data and arguments when there is
\* no cache file.
C11_CachedEqualsBuilt ==
    [][CacheHit =>
          /\ G' = CreateGraphBody(g_data, g_args, tmp_names).G
          /\ original' = CreateGraphBody(g_data, g_args, tmp_names).original
      ]_vars

\* The options that are not part of the cache file's name have main()'s
\* default values
PlainOptions(args) ==
    /\ args.MAX_WILD_BLOCKS = DefaultArgs.MAX_WILD_BLOCKS
    /\ args.TRANSFER_ADDITION = DefaultArgs.TRANSFER_ADDITION
    /\ args.WILD_ADDITION = DefaultArgs.WILD_ADDITION

\* create_graph is past its cache lookup
Entered == g_log # <<>> /\ g_pc \notin {"idle", "call"}

\* C12: a call whose MAX_WILD_BLOCKS, TRANSFER_ADDITION or WILD_ADDITION is
\* not the default reads and writes no cache file; and the content of the
\* cache file a call reads or writes is the graph that call builds afresh,
\* the file's name determining it.
C12_NameDeterminesGraph ==
    Entered =>
       /\ ~PlainOptions(g_args) => g_filename = NoFile
       /\ (g_filename \in DOMAIN cache_files
              /\ cache_files[g_filename].complete) =>
             cache_files[g_filename].G
                = CreateGraphBody(g_data, g_args, <<>>).G

\* Two calls of one process passed the same arguments that meet the cache
\* conditions: the default filters, WAITING mode, the cache enabled
SameCachedCalls(i, j) ==
    /\ i < j
    /\ g_log[i].live /\ g_log[j].live
    /\ g_log[i].args = g_log[j].args
    /\ g_log[i].given = g_log[j].given
    /\ g_log[i].args.cache
    /\ g_log[i].args.route_type = "WAITING"
    /\ g_log[i].args.AVOID_STATIONS = <<>>
    /\ g_log[i].args.IGNORED_LINES = <<>>

\* C13: of the main() calls of one process with identical arguments that
\* meet the cache conditions, only the first builds the graph; every later
\* one finds the cache file and returns the graph it holds.
C13_OnlyFirstCallBuilds ==
    \A i \in 1..Len(g_log) : \A j \in 1..Len(g_log) :
       (SameCachedCalls(i, j) /\ g_log[j].how # "pending") =>
          g_log[j].how = "cache"

\* C14: a call that finds under its cache file name a file that is not a
\* whole pickle raises nothing: it proceeds as on a miss, builds the graph,
\* and when it returns that graph the cache file is a whole pickle again.
C14_BrokenCacheIsMiss ==
    /\ g_pc # "raised"
    /\ (Entered /\ g_pc \in {"built", "done"} /\ g_filename # NoFile) =>
          /\ g_filename \in DOMAIN cache_files
          /\ cache_files[g_filename].complete

\* C20: a cache file is written under another name and renamed when it is
\* whole, so a process that looks up a cache file name while another one
\* writes that file never finds the file in the middle of being written:
\* what it loads is a whole pickle.
C20_NoPartialCacheFile == "EOFError" \notin g_seen

\* The duration map the running call's create_graph leaves when the call is
\* the only one its process ever runs
OwnOriginal == CreateGraphBody(g_data, g_args, <<>>).original

\* C15: a query's result, the ride duration, the waiting time and the
\* interval of every route of every leg, is the result the query gives when
\* it runs alone, whatever other queries the process runs before it or
\* between its steps: it reads no duration map, interval table or name cache
\* that the graph build of another query has written.
C15_QueriesIsolated ==
    /\ ~(g_pc = "raised" /\ g_out = "KeyError")
    /\ (g_pc = "done" /\ g_log # <<>> /\ g_out.outcome = "path") =>
          g_legs = process_path(G, g_out.shortest_path, OwnOriginal,
                                g_data.intervals)

----------------------------------------------------------------------------
(* Claims about the routes behind the edges *)

\* The letters of the route names of the model
Spelling(name) ==
    CASE name = "R1" -> <<"R", "1">>
      [] name = "R2" -> <<"R", "2">>
      [] name = "R4" -> <<"R", "4">>
      [] name = "Dummy" -> <<"D", "u", "m", "m", "y">>
      [] OTHER -> <<>>

\* word in s
Contains(s, word) ==
    \E i \in 1..(Len(s) - Len(word) + 1) :
       SubSeq(s, i, i + Len(word) - 1) = word

\* 'placeholder' in name_lower or 'dummy' in name_lower
SpareName(name) ==
    \/ Contains(Lower(Spelling(name)),
                <<"p", "l", "a", "c", "e", "h", "o", "l", "d", "e", "r">>)
    \/ Contains(Lower(Spelling(name)), <<"d", "u", "m", "m", "y">>)

\* The routes of the data whose name an edge bears, alone or in a list
RoutesOfEdge(edge) ==
    {r \in Range(g_data.routes) :
       \E k \in 1..Len(edge.name.names) : edge.name.names[k].text = r.name}

\* C18: no edge of the graph create_graph has built bears the name of a
\* route whose name holds 'placeholder' or 'dummy' in any case, of a route
\* with fewer than two stations, or of a route whose number of durations is
\* not its number of stations less one.
C18_NoSpareRouteOnEdges ==
    (g_pc \in {"built", "done"} /\ g_log # <<>>) =>
       \A p \in Pairs : \A k \in 1..Len(G.adj[p]) :
          \A r \in RoutesOfEdge(G.adj[p][k]) :
             /\ ~SpareName(r.name)
             /\ Len(r.stations) >= 2
             /\ Len(r.durations) = Len(r.stations) - 1

----------------------------------------------------------------------------
(* Claims about the interval table *)

IntervalEnded == iv_pc \in {"prompt", "returned", "ConfigError"}

\* C19: a station request that fails is passed over and the answers of the
\* others are still reduced to the table; when every request failed,
\* gen_route_interval ends with a configuration error, and neither makes an
\* empty table nor asks whether to write one.
C19_AllFailedIsError ==
    IntervalEnded =>
        IF interval_data_list = <<>>
        THEN iv_pc = "ConfigError" /\ interval_file = <<>>
        ELSE /\ iv_pc \in {"prompt", "returned"}
             /\ freq_dict = FreqDict(interval_data_list)

----------------------------------------------------------------------------
(* Claims about station names *)

\* C17: whatever the station dict and STATION_TABLE, when a name given
\* resolves to a station, the full name of that station resolves to the
\* same station: also when stations share a part of their names, when the
\* name given was matched by likeness, and when tmp_names holds answers
\* already.
C17_NameOfIdResolvesToId ==
    rs_pc = "back" => rs_back = rs_id

\* C25: with one thread for each station, whatever the order in which the
\* threads run, never more than SemaphoreValue (25 in the source) requests
\* are under way at once, and the queue of answers is emptied into
\* interval_data_list only when every thread has ended.
C25_BoundedFanOut ==
    /\ Cardinality(iv_inflight) <= SemaphoreValue
    /\ iv_threads # {} => (iv_pc = "fetching" /\ interval_data_list = <<>>)
    /\ iv_pc \in {"prompt", "returned"} => ROUTE_INTERVAL_DATA = <<>>

\* the semaphore is used up while a thread still waits for it
C25_Witness ==
    /\ Cardinality(iv_inflight) = SemaphoreValue
    /\ iv_threads \ iv_inflight # {}

----------------------------------------------------------------------------
(* Claims about the connection list and the legs of a REALTIME query *)

AvoidedNums == {StationNum(a) : a \in AvoidIds \ {None}}

\* C21: when stations are avoided, no connection of the list the scan
\* works on (rides and walks of the templates, walks from the origin added
\* for the query) leaves from or arrives at an avoided station.
C21_NoAvoidedStationInTimetable ==
    Loaded =>
        \A i \in 1..Len(timetable) :
            /\ timetable[i].dep \notin AvoidedNums
            /\ timetable[i].arr \notin AvoidedNums

\* main() has returned the legs of a path
LegsReturned == rt_pc = "done" /\ rt_out = "path"

\* The maximal runs <<a, b>> of consecutive rides of one trip in result
TripRuns(result) ==
    {ab \in (1..Len(result)) \X (1..Len(result)) :
        /\ ab[1] <= ab[2]
        /\ \A i \in ab[1]..ab[2] :
              /\ result[i].trip # NoTrip
              /\ result[i].trip = result[ab[1]].trip
        /\ ab[1] > 1 => result[ab[1] - 1].trip # result[ab[1]].trip
        /\ ab[2] < Len(result) => result[ab[2] + 1].trip # result[ab[1]].trip}

\* leg is the ride of result[a..b] as one leg
IsLegOfRun(leg, result, a, b) ==
    /\ leg.trip = result[a].trip
    /\ leg.dep = result[a].dep
    /\ leg.dep_time = result[a].dep_time
    /\ leg.arr = result[b].arr
    /\ leg.arr_time = result[b].arr_time

\* C22: every maximal run of consecutive rides of one trip on the path
\* becomes exactly one leg, from the station and time at which the run's
\* first connection leaves to the station and time at which its last
\* connection arrives.
C22_OneLegPerTripRun ==
    LegsReturned =>
        \A ab \in TripRuns(route) :
            Cardinality({k \in 1..Len(route_new) :
                           IsLegOfRun(route_new[k], route, ab[1], ab[2])}) = 1

\* C23: unless detail is asked for, no two legs that follow one another
\* have the same route id and terminus (they are one leg); with detail the
\* legs are those left by the joining of trips.
C23_AdjacentLegsMerged ==
    LegsReturned =>
        IF rt_args.DETAIL
        THEN rt_path = route_new
        ELSE \A k \in 1..(Len(rt_path) - 1) :
                SubSeq(rt_path[k].detail, 1, 2)
                    # SubSeq(rt_path[k + 1].detail, 1, 2)

\* C26: every leg arrives no earlier than it leaves, and leaves from the
\* station at which the leg before it arrived, no earlier than that
\* arrival.
C26_LegsAreChained ==
    LegsReturned =>
        /\ \A k \in 1..Len(rt_path) :
              rt_path[k].dep_time <= rt_path[k].arr_time
        /\ \A k \in 2..Len(rt_path) :
              /\ rt_path[k].dep = rt_path[k - 1].arr
              /\ rt_path[k].dep_time >= rt_path[k - 1].arr_time

\* C27: every ride leg carries the route id, terminus and platform of a
\* connection of the trip whose number it carries, never those of a walk
\* or of another route.
C27_RideLegHasTripDetail ==
    LegsReturned =>
        \A k \in 1..Len(rt_path) :
            rt_path[k].trip # NoTrip =>
                \E i \in 1..Len(timetable) :
                    /\ timetable[i].trip = rt_path[k].trip
                    /\ timetable[i].detail = rt_path[k].detail

----------------------------------------------------------------------------
(* Claims about the times of a THEORY / WAITING answer *)

\* The indices of the edges of the hop u -> v a shortest path may take:
\* those of the least weight
TakenEdges(g, u, v) ==
    {k \in 1..Len(g.adj[<<u, v>>]) :
        g.adj[<<u, v>>][k].weight = EdgeWeight(g, u, v)}

\* The sums of the waiting values along path[i..], one taken edge a hop
RECURSIVE TakenWaiting(_, _, _)
TakenWaiting(g, path, i) ==
    IF i >= Len(path) THEN {0}
    ELSE {g.adj[<<path[i], path[i + 1]>>][k].waiting + rest :
            k \in TakenEdges(g, path[i], path[i + 1]),
            rest \in TakenWaiting(g, path, i + 1)}

\* C28: for every query that finds a path, the waiting time returned is
\* the sum of the waiting values of the edges the shortest path takes, it
\* lies between 0 and the total, and the riding time is the total less the
\* waiting time and is not negative: also where a pair of stations has a
\* combined ride edge and a wild-walk edge.
C28_WaitingOfEdgesTaken ==
    (g_pc = "done" /\ g_out.outcome = "path") =>
        /\ g_times.waiting_time \in TakenWaiting(G, g_out.shortest_path, 1)
        /\ 0 <= g_times.waiting_time
        /\ g_times.waiting_time <= g_times.total
        /\ g_times.riding_time = g_times.total - g_times.waiting_time
        /\ g_times.riding_time >= 0

----------------------------------------------------------------------------
(* Claims about the legs of a query answered from the cache *)

\* The running call is the only call of its process, it took its graph
\* from a cache file, and every call so far left the options that are not
\* part of the file's name alone
CachedAlone ==
    /\ g_log # <<>>
    /\ g_log[Len(g_log)].how = "cache"
    /\ \A k \in 1..(Len(g_log) - 1) : ~g_log[k].live
    /\ \A k \in 1..Len(g_log) : PlainOptions(g_log[k].args)

\* The legs the call returns when it finds no cache file and builds
FreshLegs ==
    process_path(CreateGraphBody(g_data, g_args, <<>>).G,
                 g_out.shortest_path,
                 CreateGraphBody(g_data, g_args, <<>>).original,
                 CableCarIntervals(g_data, g_args, g_data.intervals))

\* C30: a WAITING query whose graph comes from the cache file returns the
\* legs the same query returns when it builds the graph: the same
\* durations, waiting times and interval of every route, the interval of
\* 2 s of a cable car among them.
C30_CachedLegsEqualFresh ==
    (g_pc = "done" /\ CachedAlone /\ g_out.outcome = "path") =>
        g_legs = FreshLegs

====
